---- MODULE Spec2Model ----
(***************************************************************************)
(* A model of the SED object of sedkit/sed.py: its photometry table, its   *)
(* list of spectra, distance/parallax/age/radius, the unit choice, the     *)
(* `calculated' book-keeping flag and every derived field that make_sed    *)
(* and the setters assign.                                                 *)
(*                                                                         *)
(* Numbers are integers.  Wavelengths are raw values tagged with their     *)
(* unit, fluxes likewise.  Magnitudes are multiples of 5 so that the       *)
(* distance modulus and 10^(-0.4 m) stay integral.  Uncertainty arrays of  *)
(* spectra are not carried; the uncertainty of a derived pair is the       *)
(* token 1 when it is known and None when it is not.                       *)
(***************************************************************************)
EXTENDS Integers, Sequences, FiniteSets, TLC

(* ------------------------------------------------------------------ *)
(* Bounds and input domains                                            *)
(* ------------------------------------------------------------------ *)
\* longest list of spectra the SED state machine holds
MaxSpectra == 2
\* longest list handed to group_spectra in the pure-function specification
MaxGroup == 3
\* longest sequence of calls made on one SED object
MaxCalls == 4

\* Python None, for fields that otherwise hold a tuple, a list or a Spectrum
None == <<>>
\* np.nan in a numeric column; like np.nan it fails every `> 0' test
NaN == -999999
\* an attribute that __init__ never creates (reading it raises AttributeError)
Unset == [unset |-> TRUE]
\* an uncertainty that is None inside a (value, unc) pair
NoUnc == -1
\* no exception is propagating
NoExc == "none"
\* 1E30 um, the far end of the trim ranges
Infinity == 1000000

WaveUnits == {"um", "nm"}
FluxUnits == {"erg/s/cm2/AA"}
Bands == {"B1", "B2"}
Mags == {5}
MagUncs == {1}
Distances == {10}
Parallaxes == {10}
Ages == {1}
Radii == {2}
SpecIds == {1, 2}

(* ------------------------------------------------------------------ *)
(* Units (astropy.units): a raw value times the number of units per um *)
(* ------------------------------------------------------------------ *)
WaveFactor(unit) == IF unit = "um" THEN 1 ELSE 1000
FluxFactor(unit) == IF unit = "erg/s/cm2/AA" THEN 1 ELSE 10

Q(v, unit) == [value |-> v, unit |-> unit]
\* Quantity.to(unit)
QTo(x, unit) == Q((x.value * WaveFactor(unit)) \div WaveFactor(x.unit), unit)
\* Quantity.__lt__ / __gt__ compare in a common unit
QLess(a, b) == a.value * WaveFactor(b.unit) < b.value * WaveFactor(a.unit)

(* ------------------------------------------------------------------ *)
(* Small arithmetic                                                    *)
(* ------------------------------------------------------------------ *)
SeqMin(s) == CHOOSE x \in {s[i] : i \in DOMAIN s} : \A y \in {s[i] : i \in DOMAIN s} : x <= y
SeqMax(s) == CHOOSE x \in {s[i] : i \in DOMAIN s} : \A y \in {s[i] : i \in DOMAIN s} : x >= y
SetMin(S) == CHOOSE x \in S : \A y \in S : x <= y
SetMax(S) == CHOOSE x \in S : \A y \in S : x >= y

RECURSIVE Pow(_, _)
Pow(b, e) == IF e = 0 THEN 1 ELSE b * Pow(b, e - 1)

\* floor(log10(x)) for x >= 1
RECURSIVE ILog10(_)
ILog10(x) == IF x < 10 THEN 0 ELSE 1 + ILog10(x \div 10)

\* floor of the fourth root, the value of sqrt(sqrt(x)).astype(int)
RECURSIVE Root4From(_, _)
Root4From(x, r) == IF (r + 1) * (r + 1) * (r + 1) * (r + 1) > x THEN r ELSE Root4From(x, r + 1)
Root4(x) == Root4From(x, 0)

RECURSIVE SumSeq(_)
SumSeq(s) == IF s = <<>> THEN 0 ELSE Head(s) + SumSeq(Tail(s))

\* the elements of a set of integers as an ascending sequence
RECURSIVE SortedSeq(_)
SortedSeq(S) == IF S = {} THEN <<>> ELSE <<SetMin(S)>> \o SortedSeq(S \ {SetMin(S)})

\* the elements of seq whose index is in keep, in order
RECURSIVE SelectIdx(_, _, _)
SelectIdx(seq, keep, n) ==
  IF n > Len(seq) THEN <<>>
  ELSE (IF n \in keep THEN <<seq[n]>> ELSE <<>>) \o SelectIdx(seq, keep, n + 1)

(* ------------------------------------------------------------------ *)
(* sedkit.spectrum.Spectrum: [W, F] arrays with their units            *)
(* ------------------------------------------------------------------ *)
Spectrum(wave, flux, wu, fu) ==
  [wave |-> wave, flux |-> flux, wave_units |-> wu, flux_units |-> fu]

\* Spectrum.wave_units setter: rescales the wavelength array
SpecWaveUnits(sp, unit) ==
  [sp EXCEPT !.wave = [i \in DOMAIN sp.wave |->
                         (sp.wave[i] * WaveFactor(unit)) \div WaveFactor(sp.wave_units)],
             !.wave_units = unit]

\* Spectrum.flux_units setter: rescales the flux array
SpecFluxUnits(sp, unit) ==
  [sp EXCEPT !.flux = [i \in DOMAIN sp.flux |->
                         (sp.flux[i] * FluxFactor(unit)) \div FluxFactor(sp.flux_units)],
             !.flux_units = unit]

\* the spectra a caller can hand to add_spectrum, in um and erg/s/cm2/AA
CatWave(id) == IF id = 1 THEN <<3, 4, 5>> ELSE <<5, 6, 8>>
CatFlux(id) == IF id = 1 THEN <<4, 6, 4>> ELSE <<2, 2, 2>>
CatalogSpectrum(id) == Spectrum(CatWave(id), CatFlux(id), "um", "erg/s/cm2/AA")

\* np.interp: linear interpolation, clamped at the ends
Interp(wave, flux, w) ==
  IF w <= wave[1] THEN flux[1]
  ELSE IF w >= wave[Len(wave)] THEN flux[Len(wave)]
  ELSE LET i == CHOOSE k \in 1..(Len(wave) - 1) : wave[k] <= w /\ w < wave[k + 1]
       IN flux[i] + ((flux[i + 1] - flux[i]) * (w - wave[i])) \div (wave[i + 1] - wave[i])

\* two lists of (wavelength, flux) pairs merged in wavelength order, a
\* wavelength that both hold being kept twice
RECURSIVE MergeKeeping(_, _)
MergeKeeping(A, B) ==
  IF A = <<>> THEN B
  ELSE IF B = <<>> THEN A
  ELSE IF Head(A)[1] <= Head(B)[1] THEN <<Head(A)>> \o MergeKeeping(Tail(A), B)
  ELSE <<Head(B)>> \o MergeKeeping(A, Tail(B))

\* an addition that concatenates and sorts, without removing duplicates
SpecAdd_keeps_duplicates(a, b) ==
  IF b = None THEN a
  ELSE IF a = None THEN b
  ELSE
    LET Pairs(sp) == [i \in DOMAIN sp.wave |-> <<sp.wave[i], sp.flux[i]>>]
        Merged(m) == Spectrum([i \in DOMAIN m |-> m[i][1]], [i \in DOMAIN m |-> m[i][2]],
                              a.wave_units, a.flux_units)
    IN Merged(MergeKeeping(Pairs(a),
                           Pairs(SpecFluxUnits(SpecWaveUnits(b, a.wave_units),
                                               a.flux_units))))

\* Spectrum.__add__: union of the wavelength domains; in the overlap the
\* sparser operand is interpolated onto the denser one's grid and summed
SpecAdd(a, b) ==
  IF b = None THEN a
  ELSE IF a = None THEN b
  ELSE IF Len(b.wave) = 0 THEN a
  ELSE IF Len(a.wave) = 0 THEN b
  ELSE
    LET Merge(b2, WA, WB, lo, hi) ==
          LET FluxAt(w) ==
                IF lo <= w /\ w <= hi
                THEN Interp(a.wave, a.flux, w) + Interp(b2.wave, b2.flux, w)
                ELSE IF w \in WA THEN a.flux[CHOOSE i \in DOMAIN a.wave : a.wave[i] = w]
                ELSE b2.flux[CHOOSE i \in DOMAIN b2.wave : b2.wave[i] = w]
              Build(W) ==
                Spectrum(W, [i \in DOMAIN W |-> FluxAt(W[i])], a.wave_units, a.flux_units)
              OnGrid(inA, inB) ==
                Build(SortedSeq({w \in WA \cup WB : w < lo \/ w > hi}
                                \cup (IF Cardinality(inA) >= Cardinality(inB)
                                      THEN inA ELSE inB)))
          IN OnGrid({w \in WA : lo <= w /\ w <= hi}, {w \in WB : lo <= w /\ w <= hi})
        Overlapping(b2, WA, WB) ==
          Merge(b2, WA, WB,
                IF SetMin(WA) >= SetMin(WB) THEN SetMin(WA) ELSE SetMin(WB),
                IF SetMax(WA) <= SetMax(WB) THEN SetMax(WA) ELSE SetMax(WB))
        Converted(b2) ==
          Overlapping(b2, {a.wave[i] : i \in DOMAIN a.wave},
                      {b2.wave[i] : i \in DOMAIN b2.wave})
    IN Converted(SpecFluxUnits(SpecWaveUnits(b, a.wave_units), a.flux_units))

\* np.sum(list of Spectrum): left fold of __add__
RECURSIVE SpecSumFrom(_, _)
SpecSumFrom(acc, list) ==
  IF list = <<>> THEN acc ELSE SpecSumFrom(SpecAdd(acc, Head(list)), Tail(list))
SpecSum(list) == SpecSumFrom(Head(list), Tail(list))

\* Spectrum.flux_calibrate(distance): F_abs = F_app * (d / 10pc)^2
SpecFluxCalibrate(sp, distance) ==
  [sp EXCEPT !.flux = [i \in DOMAIN sp.flux |->
                         sp.flux[i] * (distance[1] \div 10) * (distance[1] \div 10)]]

\* Spectrum.trim([(lo, hi)]): drops the samples inside the exclusion range
SpecTrim(sp, lo, hi) ==
  LET l == QTo(lo, sp.wave_units).value
      h == QTo(hi, sp.wave_units).value
      keep == {i \in DOMAIN sp.wave : sp.wave[i] < l \/ sp.wave[i] > h}
  IN [sp EXCEPT !.wave = SelectIdx(sp.wave, keep, 1),
                !.flux = SelectIdx(sp.flux, keep, 1)]

\* Spectrum.integral(units=erg/s/cm2): trapezoid of F over W, (value, unc)
SpecIntegral(sp) ==
  LET Trapezoid(c, n) ==
        << SumSeq([i \in 1..(IF n = 0 THEN 0 ELSE n - 1) |->
                     (c.wave[i + 1] - c.wave[i]) * (c.flux[i] + c.flux[i + 1])]) \div 2, 1 >>
  IN Trapezoid(SpecFluxUnits(SpecWaveUnits(sp, "um"), "erg/s/cm2/AA"), Len(sp.wave))

(* ------------------------------------------------------------------ *)
(* sedkit.utilities                                                    *)
(* ------------------------------------------------------------------ *)
\* svo_filters.svo.Filter(band).wave_eff in um
BandEff(band) == IF band = "B1" THEN 2 ELSE IF band = "B2" THEN 4 ELSE 5

\* u.pi2pc: parallax [mas] <-> distance [pc], d = 1000 / pi, for a
\* (value, unc) pair; the same relation both ways
Pi2pc(x) == << 1000 \div x[1], 1 >>

\* distance modulus 5 log10(d / 10pc)
DistMod(d) == 5 * ILog10(d \div 10)

\* u.flux_calibrate(m, d, m_unc, d_unc): M = m - 5 log10(d / 10pc)
MagCalibrate(m, m_unc, distance) ==
  << m - DistMod(distance[1]), IF m_unc = NaN THEN NaN ELSE 1 >>

\* u.mag2flux(bandpass, mag, sig_m): zero point times 10^(-0.4 m), in
\* erg/s/cm2/AA, and its uncertainty
Mag2Flux(m, sig_m) ==
  << 10000 \div Pow(100, m \div 5), IF sig_m = NaN THEN NaN ELSE 1 >>

\* Quantity flux.to(unit) from erg/s/cm2/AA
FluxTo(f, unit) == IF f = NaN THEN NaN ELSE f * FluxFactor(unit)

\* sum of f over a finite set
RECURSIVE SumOver(_, _)
SumOver(S, f) ==
  IF S = {} THEN 0
  ELSE LET x == CHOOSE y \in S : TRUE IN f[x] + SumOver(S \ {x}, f)

\* Spectrum.norm_to_mags(photometry): the least-squares scalar
\* norm = sum(f_obs f_syn) / sum(f_syn^2) over the bands the spectrum covers
\* that have a flux and an uncertainty; unscaled when there is none
NormToMags(sp, phot, eff_unit, flux_unit) ==
  LET Scaled(use, num, den) ==
        IF use = {} \/ den = 0 THEN sp
        ELSE [sp EXCEPT !.flux = [k \in DOMAIN sp.flux |-> (sp.flux[k] * num) \div den]]
      Sums(use, fobs, fsyn) ==
        Scaled(use, SumOver(use, [i \in DOMAIN phot |-> fobs[i] * fsyn[i]]),
               SumOver(use, [i \in DOMAIN phot |-> fsyn[i] * fsyn[i]]))
      Over(eff, use, fobs) ==
        Sums(use, fobs,
             [i \in DOMAIN phot |-> IF i \in use THEN Interp(sp.wave, sp.flux, eff[i]) ELSE 0])
      At(eff) ==
        Over(eff,
             {i \in DOMAIN phot :
                /\ Len(sp.wave) > 0
                /\ sp.wave[1] <= eff[i] /\ eff[i] <= sp.wave[Len(sp.wave)]
                /\ phot[i].app_flux > 0 /\ phot[i].app_flux_unc > 0},
             [i \in DOMAIN phot |->
                (phot[i].app_flux * FluxFactor(sp.flux_units)) \div FluxFactor(flux_unit)])
  IN At([i \in DOMAIN phot |-> QTo(Q(phot[i].eff, eff_unit), sp.wave_units).value])

\* Spectrum.norm_to_spec(spec, exclude): scale to match spec over the
\* wavelengths the two share outside the exclusion range
NormToSpec(sp, spec, lo, hi) ==
  LET Scaled(use, num, den) ==
        IF use = {} \/ den = 0 THEN sp
        ELSE [sp EXCEPT !.flux = [k \in DOMAIN sp.flux |-> (sp.flux[k] * num) \div den]]
      Over(other, use) ==
        Scaled(use,
               SumOver(use, [i \in DOMAIN sp.wave |->
                               Interp(other.wave, other.flux, sp.wave[i])]),
               SumOver(use, [i \in DOMAIN sp.wave |-> sp.flux[i]]))
      Against(other, l, h) ==
        Over(other,
             {i \in DOMAIN sp.wave :
                /\ Len(other.wave) > 0
                /\ other.wave[1] <= sp.wave[i] /\ sp.wave[i] <= other.wave[Len(other.wave)]
                /\ ~(l <= sp.wave[i] /\ sp.wave[i] <= h)})
  IN Against(SpecFluxUnits(SpecWaveUnits(spec, sp.wave_units), sp.flux_units),
             QTo(lo, sp.wave_units).value, QTo(hi, sp.wave_units).value)

\* the wavelength grids of the two tails, in um
WeinGrid == <<0, 1, 2, 3>>
RJGrid == <<1, 3, 5, 7, 9, 11>>
\* the long end of the Wien grid (1.1 um in the source)
WeinEnd == 3

\* sp.Blackbody(wave, (teff, unc)): a positive flux that grows with teff
\* and falls with wavelength, in um and erg/s/cm2/AA
Blackbody(grid, teff) ==
  Spectrum(grid, [i \in DOMAIN grid |-> 1 + (4 * teff) \div (1 + grid[i])],
           "um", "erg/s/cm2/AA")

\* iso.Isochrone.evaluate(Lbol_sun, age, 'Lbol', param): (value, unc) at
\* the (age, Lbol) coordinate, ValueError (None here) outside the grid
IsoLbolMin == 1
IsoLbolMax == 3
IsoEvaluate(Lbol_sun, age, param) ==
  IF Lbol_sun[1] < IsoLbolMin \/ Lbol_sun[1] > IsoLbolMax THEN None
  ELSE LET young == IF age[1] < 5 THEN 1 ELSE 0
           L == Lbol_sun[1]
       IN IF param = "radius" THEN << 1 + young + L \div 3, 1 >>
          ELSE IF param = "logg" THEN << 5 - young, 1 >>
          ELSE IF param = "mass" THEN << 1 + L \div 2, 1 >>
          ELSE << 3 + L - young, 1 >>

(* ------------------------------------------------------------------ *)
(* The photometry table (astropy QTable)                               *)
(* ------------------------------------------------------------------ *)
\* Table.sort('eff'): stable insertion sort of the rows
RECURSIVE InsertRow(_, _)
InsertRow(sorted, row) ==
  IF sorted = <<>> THEN <<row>>
  ELSE IF row.eff < Head(sorted).eff THEN <<row>> \o sorted
  ELSE <<Head(sorted)>> \o InsertRow(Tail(sorted), row)
RECURSIVE SortByEff(_)
SortByEff(rows) ==
  IF rows = <<>> THEN <<>>
  ELSE InsertRow(SortByEff(SubSeq(rows, 1, Len(rows) - 1)), rows[Len(rows)])

TableBands(rows) == {rows[i].band : i \in DOMAIN rows}

\* Table.remove_row(index), index from 0
RemoveRow(rows, index) == SelectIdx(rows, DOMAIN rows \ {index + 1}, 1)

(* ------------------------------------------------------------------ *)
(* SED.group_spectra                                                   *)
(* ------------------------------------------------------------------ *)
\* any(np.where(np.logical_and(S.wave < s.wave[-1], S.wave > s.wave[0]))[0]):
\* some index other than 0 of S.wave lies strictly inside s's range
WaveInside(S, s) ==
  \E i \in DOMAIN S.wave :
     /\ i - 1 # 0
     /\ S.wave[i] < s.wave[Len(s.wave)]
     /\ S.wave[i] > s.wave[1]

\* the inner loop over n, s: group and idx grow together
RECURSIVE GroupInner(_, _, _, _, _)
GroupInner(spectra, N, n, group, idx) ==
  IF n > Len(spectra) THEN <<group, idx>>
  ELSE IF n \notin idx /\ WaveInside(spectra[N], spectra[n])
       THEN GroupInner(spectra, N, n + 1, Append(group, n), idx \cup {n})
       ELSE GroupInner(spectra, N, n + 1, group, idx)

\* the outer loop over N, S
RECURSIVE GroupOuter(_, _, _, _)
GroupOuter(spectra, N, groups, idx) ==
  IF N > Len(spectra) THEN groups
  ELSE IF N \notin idx
       THEN LET r == GroupInner(spectra, N, 1, <<N>>, idx \cup {N})
            IN GroupOuter(spectra, N + 1, Append(groups, r[1]), r[2])
       ELSE GroupOuter(spectra, N + 1, groups, idx)

\* the groups, each a list of positions (from 1) in spectra
group_spectra(spectra) == GroupOuter(spectra, 1, <<>>, {})

(* ------------------------------------------------------------------ *)
(* State                                                               *)
(* ------------------------------------------------------------------ *)
\* sed:  the fields of the SED object
\* last: the operation that produced this state, the exception it raised,
\*       and the number of calls made so far
\* gs_spectra, gs_groups: the argument and the result of group_spectra
\* call_args, call_result: the arguments and the result of a call of a
\* module-level function of SEDs.py (isochrone_interp, norm_to_mags)
VARIABLES sed, last, gs_spectra, gs_groups, call_args, call_result
vars == <<sed, last, gs_spectra, gs_groups, call_args, call_result>>

\* the object as SED.__init__() leaves it (no keyword arguments): the
\* default age is set through the age setter at the end of __init__
NewSED ==
  [ age |-> <<6, 4>>, distance |-> None, parallax |-> None, radius |-> None,
    calculated |-> FALSE, isochrone_radius |-> FALSE,
    wave_units |-> "um", flux_units |-> "erg/s/cm2/AA",
    min_phot |-> Q(999, "um"), max_phot |-> Q(0, "um"),
    min_spec |-> Q(999, "um"), max_spec |-> Q(0, "um"),
    spectra |-> <<>>, stitched_spectra |-> <<>>, stitched_is_spectra |-> FALSE,
    app_spec_SED |-> None, abs_spec_SED |-> None,
    app_phot_SED |-> None, abs_phot_SED |-> None,
    reddening |-> 0, photometry |-> <<>>, eff_unit |-> "um",
    app_specphot_SED |-> Unset, wein |-> Unset, rj |-> Unset,
    app_SED |-> Unset, abs_SED |-> Unset,
    fbol |-> None, mbol |-> None, Teff |-> None, Teff_bb |-> None,
    Teff_evo |-> None, Lbol |-> None, Mbol |-> None, Lbol_sun |-> None,
    mass |-> None, logg |-> None, bb_source |-> None, best_fit |-> <<>>,
    exc |-> NoExc ]

\* raise e: the statements after it are skipped while s.exc is set
Raise(s, e) == [s EXCEPT !.exc = e]

\* the photometry property: sorts the table by 'eff' on every access
photometry(s) == [s EXCEPT !.photometry = SortByEff(@)]

(* ------------------------------------------------------------------ *)
(* SED._calibrate_photometry                                           *)
(* ------------------------------------------------------------------ *)
_calibrate_photometry(s0) ==
  LET AppRow(s, row) ==
        [row EXCEPT !.eff = QTo(Q(@, s.eff_unit), s.wave_units).value,
                    !.app_flux = FluxTo(Mag2Flux(row.app_magnitude,
                                                 row.app_magnitude_unc)[1], s.flux_units),
                    !.app_flux_unc = FluxTo(Mag2Flux(row.app_magnitude,
                                                     row.app_magnitude_unc)[2], s.flux_units)]
      AbsCols(s, row, M) ==
        [row EXCEPT !.abs_magnitude = M[1], !.abs_magnitude_unc = M[2],
                    !.abs_flux = FluxTo(Mag2Flux(M[1], M[2])[1], s.flux_units),
                    !.abs_flux_unc = FluxTo(Mag2Flux(M[1], M[2])[2], s.flux_units)]
      AbsRow(s, row) ==
        AbsCols(s, row, MagCalibrate(row.app_magnitude, row.app_magnitude_unc, s.distance))
      WithSED(s, rows, app) ==
        [s EXCEPT !.photometry = rows, !.eff_unit = s.wave_units,
                  !.app_phot_SED = app,
                  !.abs_phot_SED = IF s.distance # None
                                   THEN SpecFluxCalibrate(app, s.distance)
                                   ELSE None,
                  !.calculated = FALSE]
      Good(s, rows, good) ==
        WithSED(s, rows,
                Spectrum(SelectIdx([i \in DOMAIN rows |-> rows[i].eff], good, 1),
                         SelectIdx([i \in DOMAIN rows |-> rows[i].app_flux], good, 1),
                         s.wave_units, s.flux_units))
      Rows(s, rows) ==
        Good(s, rows,
             {i \in DOMAIN rows : rows[i].app_flux > 0 /\ rows[i].app_flux_unc > 0})
      Calibrate(s) ==
        IF Len(s.photometry) > 0
        THEN Rows(s, [i \in DOMAIN s.photometry |->
                        IF s.distance # None
                        THEN AbsRow(s, AppRow(s, s.photometry[i]))
                        ELSE AppRow(s, s.photometry[i])])
        ELSE [s EXCEPT !.calculated = FALSE]
  IN Calibrate(photometry(
       [s0 EXCEPT !.photometry = [i \in DOMAIN @ |->
                                    [@[i] EXCEPT !.abs_flux = NaN, !.abs_flux_unc = NaN,
                                                 !.abs_magnitude = NaN,
                                                 !.abs_magnitude_unc = NaN]],
                  !.abs_phot_SED = None]))

(* ------------------------------------------------------------------ *)
(* SED._calibrate_spectra                                              *)
(* ------------------------------------------------------------------ *)
_calibrate_spectra(s0) ==
  LET Grouped(spectra, groups) ==
        [g \in DOMAIN groups |->
           IF Len(groups[g]) > 1
           THEN SpecSum([k \in DOMAIN groups[g] |-> spectra[groups[g][k]]])
           ELSE spectra[groups[g][1]]]
      WithSED(p, spectra, stitched, app) ==
        [p EXCEPT !.spectra = spectra,
                  !.stitched_spectra = stitched,
                  !.stitched_is_spectra = (Len(spectra) = 1 /\ Len(p.photometry) = 0),
                  !.app_spec_SED = app,
                  !.abs_spec_SED = IF p.distance # None
                                   THEN SpecFluxCalibrate(app, p.distance)
                                   ELSE None,
                  !.calculated = FALSE]
      Stitched(p, spectra, stitched) ==
        WithSED(p, spectra, stitched,
                IF Len(stitched) > 1 THEN SpecSum(stitched) ELSE stitched[1])
      Composite(p, spectra, composite) ==
        Stitched(p, spectra,
                 IF Len(p.photometry) > 0
                 THEN [i \in DOMAIN composite |->
                         NormToMags(composite[i], p.photometry, p.eff_unit, p.flux_units)]
                 ELSE composite)
      Spectra(p, spectra) ==
        Composite(p, spectra,
                  IF Len(spectra) > 1 THEN Grouped(spectra, group_spectra(spectra))
                  ELSE spectra)
  IN IF Len(s0.spectra) > 0
     THEN Spectra(photometry([s0 EXCEPT !.abs_spec_SED = None]),
                  [i \in DOMAIN s0.spectra |-> SpecFluxUnits(s0.spectra[i], s0.flux_units)])
     ELSE [s0 EXCEPT !.abs_spec_SED = None, !.calculated = FALSE]

(* ------------------------------------------------------------------ *)
(* The radius setter                                                   *)
(* ------------------------------------------------------------------ *)
\* radius is None or a valid (value, unc) sequence in length units
radius_setter(s, radius) == [s EXCEPT !.radius = radius, !.calculated = FALSE]

(* ------------------------------------------------------------------ *)
(* Bolometric quantities                                               *)
(* ------------------------------------------------------------------ *)
get_fbol(s) == [s EXCEPT !.fbol = SpecIntegral(s.app_SED)]

\* mbol = -2.5 log10(fbol) - 11.482
mbol_of(fbol) == << (0 - 5 * ILog10(fbol[1])) \div 2 - 11, fbol[2] >>

\* Lbol = 4 pi fbol d^2, in units in which 4 pi (10 pc)^2 is 1
Lbol_of(fbol, distance) ==
  << fbol[1] * (distance[1] \div 10) * (distance[1] \div 10), fbol[2] >>

\* Lbol_sun = log10(Lbol / L_sun)
Lbol_sun_of(Lbol) == << ILog10(Lbol[1]), Lbol[2] >>

\* Mbol = mbol - 5 log10(d / 10pc)
Mbol_of(mbol, distance) == << mbol[1] - DistMod(distance[1]), mbol[2] >>

\* Teff = (Lbol / (4 pi sigma_sb radius^2))^(1/4), truncated by astype(int)
Teff_of(Lbol, radius, fbol) ==
  << Root4(Lbol[1] \div (radius[1] * radius[1])), IF fbol[2] = NoUnc THEN NoUnc ELSE 1 >>

get_Lbol(s0) ==
  LET Calculate(s) ==
        IF s.distance # None
        THEN [s EXCEPT !.Lbol = Lbol_of(s.fbol, s.distance),
                       !.Lbol_sun = Lbol_sun_of(Lbol_of(s.fbol, s.distance))]
        ELSE s
  IN Calculate(IF s0.fbol = None THEN get_fbol(s0) ELSE s0)

get_mbol(s0) ==
  LET Calculate(s) == [s EXCEPT !.mbol = mbol_of(s.fbol)]
  IN Calculate(IF s0.fbol = None THEN get_fbol(s0) ELSE s0)

get_Mbol(s0) ==
  LET Calculate(s) ==
        IF s.distance # None
        THEN [s EXCEPT !.Mbol = Mbol_of(s.mbol, s.distance)]
        ELSE s
  IN Calculate(IF s0.mbol = None THEN get_mbol(s0) ELSE s0)

get_Teff(s) ==
  IF s.distance # None /\ s.radius # None
  THEN [s EXCEPT !.Teff = Teff_of(s.Lbol, s.radius, s.fbol)]
  ELSE s

(* ------------------------------------------------------------------ *)
(* Isochrone estimates                                                 *)
(* ------------------------------------------------------------------ *)
radius_from_age(s) ==
  IF s.age # None /\ s.Lbol_sun # None
  THEN LET r == IsoEvaluate(s.Lbol_sun, s.age, "radius")
       IN IF r = None THEN s
          ELSE [radius_setter(s, r) EXCEPT !.isochrone_radius = TRUE]
  ELSE s

logg_from_age(s) ==
  IF s.age # None /\ s.Lbol_sun # None /\ s.Lbol_sun[2] # NoUnc
  THEN LET r == IsoEvaluate(s.Lbol_sun, s.age, "logg")
       IN IF r = None THEN s ELSE [s EXCEPT !.logg = r]
  ELSE s

mass_from_age(s) ==
  IF s.age # None /\ s.Lbol_sun # None /\ s.Lbol_sun[2] # NoUnc
  THEN LET r == IsoEvaluate(s.Lbol_sun, s.age, "mass")
       IN IF r = None THEN s ELSE [s EXCEPT !.mass = r]
  ELSE s

teff_from_age(s) ==
  IF s.age # None /\ s.Lbol_sun # None /\ s.Lbol_sun[2] # NoUnc
  THEN LET r == IsoEvaluate(s.Lbol_sun, s.age, "teff")
       IN IF r = None THEN s ELSE [s EXCEPT !.Teff_evo = r]
  ELSE s

(* ------------------------------------------------------------------ *)
(* SED.fundamental_params                                              *)
(* ------------------------------------------------------------------ *)
\* a fundamental_params that interpolates the radius whether or not one
\* is set
fundamental_params_always_radius(s0) ==
  LET Isochrones(s) ==
        IF s.Lbol_sun # None /\ s.Lbol_sun[2] # NoUnc
        THEN teff_from_age(mass_from_age(logg_from_age(radius_from_age(s))))
        ELSE s
  IN get_Teff(Isochrones(get_Mbol(get_Lbol(s0))))

fundamental_params(s0) ==
  LET Isochrones(s) ==
        IF s.Lbol_sun # None /\ s.Lbol_sun[2] # NoUnc
        THEN teff_from_age(mass_from_age(logg_from_age(
               IF s.radius = None THEN radius_from_age(s) ELSE s)))
        ELSE s
  IN get_Teff(Isochrones(get_Mbol(get_Lbol(s0))))

(* ------------------------------------------------------------------ *)
(* SED._calculate_sed                                                  *)
(* ------------------------------------------------------------------ *)
\* the pieces np.sum adds up into app_SED
app_SED_pieces(s) == <<s.wein, s.app_specphot_SED, s.rj>> \o s.stitched_spectra

\* the first half of _calculate_sed: app_SED and, with a distance, abs_SED
construct_app_SED(s) ==
  LET WithSED(app) ==
        [s EXCEPT !.app_SED = app,
                  !.abs_SED = IF s.distance # None
                              THEN SpecFluxCalibrate(app, s.distance)
                              ELSE @]
  IN WithSED(SpecSum(app_SED_pieces(s)))

_calculate_sed(s) == fundamental_params(construct_app_SED(s))

(* ------------------------------------------------------------------ *)
(* The tails                                                           *)
(* ------------------------------------------------------------------ *)
\* a Wien tail that is left on its whole grid
make_wein_tail_untrimmed(s0, teff) ==
  [s0 EXCEPT !.wein = Spectrum(WeinGrid, [i \in DOMAIN WeinGrid |-> 1],
                               s0.wave_units, s0.flux_units)]

\* make_wein_tail(teff): teff is None on the first pass of make_sed
make_wein_tail(s0, teff) ==
  LET Trimmed(s, wein) ==
        SpecTrim(wein,
                 Q(IF s.min_spec.value <= s.min_phot.value
                   THEN s.min_spec.value ELSE s.min_phot.value, s.wave_units),
                 Q(Infinity, "um"))
      Normalized(s, bb) ==
        IF QLess(s.min_spec, s.min_phot)
        THEN IF s.app_spec_SED = None THEN Raise(s, "AttributeError")
             ELSE [s EXCEPT !.wein = Trimmed(s, NormToSpec(bb, s.app_spec_SED,
                                                           Q(WeinEnd, "um"),
                                                           Q(Infinity, "um")))]
        ELSE [s EXCEPT !.wein = Trimmed(s, NormToMags(bb, s.photometry, s.eff_unit,
                                                      s.flux_units))]
      WithTail(s) ==
        IF teff # None
        THEN Normalized(s, SpecFluxUnits(SpecWaveUnits(Blackbody(WeinGrid, teff[1]),
                                                       s.wave_units), s.flux_units))
        ELSE [s EXCEPT !.wein = Trimmed(s, Spectrum(<<0>>, <<0>>, s.wave_units,
                                                    s.flux_units))]
  IN WithTail(IF teff # None /\ ~QLess(s0.min_spec, s0.min_phot) THEN photometry(s0) ELSE s0)

\* make_rj_tail(teff)
make_rj_tail(s0, teff) ==
  LET Trimmed(s, rj) ==
        SpecTrim(rj, Q(0, "um"),
                 Q(IF s.max_spec.value >= s.max_phot.value
                   THEN s.max_spec.value ELSE s.max_phot.value, s.wave_units))
      Normalized(s, bb) ==
        IF QLess(s.max_phot, s.max_spec)
        THEN IF s.app_spec_SED = None THEN Raise(s, "AttributeError")
             ELSE [s EXCEPT !.rj = Trimmed(s, NormToSpec(bb, s.app_spec_SED,
                                                         Q(0, "um"), Q(0, "um")))]
        ELSE [s EXCEPT !.rj = Trimmed(s, NormToMags(bb, s.photometry, s.eff_unit,
                                                    s.flux_units))]
      WithTail(s) ==
        Normalized(s, SpecFluxUnits(SpecWaveUnits(Blackbody(RJGrid, teff[1]),
                                                  s.wave_units), s.flux_units))
  IN WithTail(IF ~QLess(s0.max_phot, s0.max_spec) THEN photometry(s0) ELSE s0)

(* ------------------------------------------------------------------ *)
(* SED.make_sed                                                        *)
(* ------------------------------------------------------------------ *)
\* a coverage test that also takes the end points of a spectrum
covered_closed(s) ==
  {idx \in DOMAIN s.app_phot_SED.wave :
     \E N \in DOMAIN s.stitched_spectra :
        /\ s.app_phot_SED.wave[idx] <= s.stitched_spectra[N].wave[Len(s.stitched_spectra[N].wave)]
        /\ s.app_phot_SED.wave[idx] >= s.stitched_spectra[N].wave[1]}

\* the photometric points with spectrum coverage, as positions (from 1)
\* in app_phot_SED.wave
covered(s) ==
  {idx \in DOMAIN s.app_phot_SED.wave :
     \E N \in DOMAIN s.stitched_spectra :
        LET spec == s.stitched_spectra[N]
            i == s.app_phot_SED.wave[idx]
        IN i < spec.wave[Len(spec.wave)] /\ i > spec.wave[1]}

\* the spec+phot piece
specphot(s) ==
  LET Kept(p, WP, FP) ==
        [p EXCEPT !.app_specphot_SED =
                    IF Len(WP) = 0 THEN None
                    ELSE Spectrum(WP, FP, p.wave_units, p.flux_units)]
      Uncovered(p, keep) ==
        Kept(p, SelectIdx(p.app_phot_SED.wave, keep, 1),
             SelectIdx(p.app_phot_SED.flux, keep, 1))
      Sorted(p) ==
        IF Len(p.photometry) > 0
        THEN Uncovered(p, DOMAIN p.app_phot_SED.wave \ covered(p))
        ELSE [p EXCEPT !.app_specphot_SED = p.app_spec_SED]
  IN IF Len(s.stitched_spectra) > 0
     THEN Sorted(photometry(s))
     ELSE [s EXCEPT !.app_specphot_SED = s.app_phot_SED]

\* the second pass, taken when Teff_evo is known after the first
second_pass(s) ==
  LET Calculate(r) == IF r.exc # NoExc THEN r ELSE _calculate_sed(r)
      RJ(w) == Calculate(IF w.exc # NoExc THEN w ELSE make_rj_tail(w, w.Teff_evo))
  IN IF s.Teff_evo # None
     THEN RJ(make_wein_tail(s, s.Teff_evo))
     ELSE s

make_sed(s0) ==
  LET Done(s) == IF s.exc # NoExc THEN s ELSE [s EXCEPT !.calculated = TRUE]
      FirstPass(s) == _calculate_sed([s EXCEPT !.rj = None])
      Make(s) ==
        Done(second_pass(FirstPass(make_wein_tail(
               specphot(_calibrate_spectra(_calibrate_photometry(s))), None))))
      Check(p) ==
        IF Len(p.spectra) = 0 /\ Len(p.photometry) = 0
        THEN Raise(IF Len(s0.spectra) = 0 THEN p ELSE s0, "ValueError")
        ELSE Make(IF Len(s0.spectra) = 0 THEN p ELSE s0)
  IN Check(photometry(s0))

(* ------------------------------------------------------------------ *)
(* Photometry and spectra: add and drop                                *)
(* ------------------------------------------------------------------ *)
\* the extinction vector of a bandpass, bp.ext_vector
BandExt(band) == IF band = "B1" THEN 2 ELSE 1

\* drop_photometry(band) with a band name
drop_photometry(s0, band) ==
  LET Remove(p, at) ==
        IF at # {}
        THEN [p EXCEPT !.photometry = RemoveRow(@, SetMin(at) - 1), !.calculated = FALSE]
        ELSE [p EXCEPT !.calculated = FALSE]
      Find(p) == Remove(p, {i \in DOMAIN p.photometry : p.photometry[i].band = band})
  IN Find(photometry(s0))

\* drop_photometry(band) with an integer index: remove_row raises
\* IndexError when band = len(table)
drop_photometry_index(s, band) ==
  IF band <= Len(s.photometry)
  THEN IF band = Len(s.photometry) THEN Raise(s, "IndexError")
       ELSE [s EXCEPT !.photometry = RemoveRow(@, band), !.calculated = FALSE]
  ELSE [s EXCEPT !.calculated = FALSE]

\* an add_photometry that appends without dropping the band first
add_photometry_appends(s0, band, mag, unc) ==
  [photometry(s0) EXCEPT
     !.photometry = Append(@, [band |-> band, eff |-> BandEff(band),
                               app_magnitude |-> mag, app_magnitude_unc |-> unc,
                               app_flux |-> 0, app_flux_unc |-> 0,
                               abs_magnitude |-> 0, abs_magnitude_unc |-> 0,
                               abs_flux |-> 0, abs_flux_unc |-> 0]),
     !.calculated = FALSE]

\* add_photometry(band, mag, mag_unc) with a float magnitude
add_photometry(s0, band, mag, unc) ==
  LET Row(s, wave_eff) ==
        [band |-> band, eff |-> QTo(wave_eff, s.eff_unit).value,
         app_magnitude |-> mag - BandExt(band) * s.reddening,
         app_magnitude_unc |-> IF unc = 0 THEN NaN ELSE unc,
         app_flux |-> 0, app_flux_unc |-> 0,
         abs_magnitude |-> 0, abs_magnitude_unc |-> 0,
         abs_flux |-> 0, abs_flux_unc |-> 0]
      AddRow(s, wave_eff) ==
        [s EXCEPT !.photometry = Append(@, Row(s, wave_eff)),
                  !.calculated = FALSE,
                  !.min_phot = IF QLess(wave_eff, @) THEN wave_eff ELSE @,
                  !.max_phot = IF QLess(@, wave_eff) THEN wave_eff ELSE @]
      Add(s) == AddRow(s, Q(BandEff(band) * WaveFactor(s.wave_units), s.wave_units))
      Replace(p) ==
        Add(IF band \in TableBands(p.photometry) THEN drop_photometry(p, band) ELSE p)
  IN Replace(photometry(s0))

\* add_spectrum(spectrum) with a valid [W, F, E]
add_spectrum(s, spectrum) ==
  LET Range(spec, lo, hi) ==
        [s EXCEPT !.spectra = Append(@, spec),
                  !.stitched_spectra = IF s.stitched_is_spectra THEN Append(@, spec) ELSE @,
                  !.calculated = FALSE,
                  !.min_spec = IF QLess(lo, @) THEN lo ELSE @,
                  !.max_spec = IF QLess(@, hi) THEN hi ELSE @]
      Add(spec) ==
        Range(spec, Q(SeqMin(spec.wave), spec.wave_units),
              Q(SeqMax(spec.wave), spec.wave_units))
  IN Add(SpecFluxUnits(SpecWaveUnits(spectrum, s.wave_units), s.flux_units))

\* a drop_spectrum that leaves the calculated flag as it was
drop_spectrum_keeps_calculated(s, idx) ==
  [s EXCEPT !.spectra = SelectIdx(@, DOMAIN @ \ {idx + 1}, 1),
            !.stitched_is_spectra = FALSE]

\* drop_spectrum(idx), idx from 0: the list is rebuilt
drop_spectrum(s, idx) ==
  [s EXCEPT !.spectra = SelectIdx(@, DOMAIN @ \ {idx + 1}, 1),
            !.stitched_is_spectra = FALSE,
            !.calculated = FALSE]

(* ------------------------------------------------------------------ *)
(* Setters                                                             *)
(* ------------------------------------------------------------------ *)
\* an age setter that forgets the book-keeping flag
age_setter_keeps_flag(s, age) == [s EXCEPT !.age = age]

\* age setter with a valid (value, unc) in time units
age_setter(s, age) == [s EXCEPT !.age = age, !.calculated = FALSE]

\* get_reddening: needs sky coordinates, which this object never has
get_reddening(s) == s

\* a None branch that keeps the radius the isochrones gave
keep_isochrone_radius(s) == s

\* the branch of the distance and parallax setters taken for None
clear_isochrone_radius(s) ==
  IF s.isochrone_radius
  THEN [radius_setter(s, None) EXCEPT !.isochrone_radius = FALSE]
  ELSE s

\* what both setters run after the assignment
recalibrate(s) ==
  [_calibrate_spectra(_calibrate_photometry(get_reddening(s))) EXCEPT !.calculated = FALSE]

\* a distance setter whose None branch empties the photometry table
distance_setter_empties_table(s, distance) ==
  IF distance = None
  THEN recalibrate(clear_isochrone_radius([s EXCEPT !.distance = None, !.parallax = None,
                                                    !.photometry = <<>>]))
  ELSE recalibrate([s EXCEPT !.distance = distance, !.parallax = Pi2pc(distance)])

\* distance setter: None, or a valid (value, unc) in length units
distance_setter(s, distance) ==
  IF distance = None
  THEN recalibrate(clear_isochrone_radius([s EXCEPT !.distance = None, !.parallax = None]))
  ELSE recalibrate([s EXCEPT !.distance = distance, !.parallax = Pi2pc(distance)])

\* a parallax setter that leaves the distance as it was
parallax_setter_keeps_distance(s, parallax) ==
  IF parallax = None
  THEN recalibrate(clear_isochrone_radius([s EXCEPT !.parallax = None, !.distance = None]))
  ELSE recalibrate([s EXCEPT !.parallax = parallax])

\* parallax setter: None, or a valid (value, unc) in angle units
parallax_setter(s, parallax) ==
  IF parallax = None
  THEN recalibrate(clear_isochrone_radius([s EXCEPT !.parallax = None, !.distance = None]))
  ELSE recalibrate([s EXCEPT !.parallax = parallax, !.distance = Pi2pc(parallax)])

\* wave_units setter with a unit of length
wave_units_setter(s, wave_units) ==
  _calibrate_spectra(_calibrate_photometry([s EXCEPT !.wave_units = wave_units]))

\* flux_units setter with a unit of flux density
flux_units_setter(s, flux_units) ==
  _calibrate_spectra(_calibrate_photometry([s EXCEPT !.flux_units = flux_units]))

(* ------------------------------------------------------------------ *)
(* Operations that read the derived parameters                         *)
(* ------------------------------------------------------------------ *)
\* a reader that does not look at the flag
recompute_skipped(s) == s

\* the first statement of every reader: if not self.calculated: self.make_sed()
recompute_if_needed(s) == IF ~s.calculated THEN make_sed(s) ELSE s

\* the results property: builds a table from the attributes
results(s) == recompute_if_needed(s)

\* plot(): reads the SEDs and the photometry table and draws them
plot(s0) ==
  LET Draw(s) == IF s.exc # NoExc THEN s ELSE photometry(s)
  IN Draw(recompute_if_needed(s0))

\* the temperature the least-squares fit returns
FitTemperature == 3

\* fit_blackbody() with the default fit_to='app_phot_SED'
fit_blackbody(s0) ==
  LET Fit(s) ==
        IF s.exc # NoExc THEN s
        ELSE IF s.app_phot_SED = None THEN Raise(s, "AttributeError")
        ELSE [photometry(s) EXCEPT !.Teff_bb = FitTemperature,
                                   !.bb_source = "app_phot_SED"]
  IN Fit(recompute_if_needed(s0))

\* fit_modelgrid(modelgrid)
fit_modelgrid(s0) ==
  LET Fit(s) ==
        IF s.exc # NoExc THEN s
        ELSE IF s.app_spec_SED # None THEN [s EXCEPT !.best_fit = <<"model">>]
        ELSE s
  IN Fit(recompute_if_needed(s0))

(* ------------------------------------------------------------------ *)
(* The state machine                                                   *)
(* ------------------------------------------------------------------ *)
Mutators == {"add_photometry", "drop_photometry", "add_spectrum", "drop_spectrum",
             "age", "distance", "parallax", "wave_units", "flux_units"}
Readers == {"results", "plot", "fit_blackbody", "fit_modelgrid"}

\* what a call leaves behind: the object, and the name of the operation
\* with the exception it raised
Call(op, s) ==
  /\ last.n < MaxCalls
  /\ sed' = [s EXCEPT !.exc = NoExc]
  /\ last' = [op |-> op, exc |-> s.exc, n |-> last.n + 1]
  /\ UNCHANGED <<gs_spectra, gs_groups, call_args, call_result>>

AddPhotometry ==
  \E band \in Bands, mag \in Mags, unc \in MagUncs :
     Call("add_photometry", add_photometry(sed, band, mag, unc))

DropPhotometry ==
  \/ \E band \in Bands : Call("drop_photometry", drop_photometry(sed, band))
  \/ \E band \in {0, Len(sed.photometry)} :
        Call("drop_photometry", drop_photometry_index(sed, band))

AddSpectrum ==
  /\ Len(sed.spectra) < MaxSpectra
  /\ \E id \in SpecIds : Call("add_spectrum", add_spectrum(sed, CatalogSpectrum(id)))

DropSpectrum ==
  \E idx \in 0 .. Len(sed.spectra) : Call("drop_spectrum", drop_spectrum(sed, idx))

SetAge == \E age \in Ages : Call("age", age_setter(sed, <<age, 1>>))

SetDistance ==
  \/ Call("distance", distance_setter(sed, None))
  \/ \E d \in Distances : Call("distance", distance_setter(sed, <<d, 1>>))

SetParallax ==
  \/ Call("parallax", parallax_setter(sed, None))
  \/ \E p \in Parallaxes : Call("parallax", parallax_setter(sed, <<p, 1>>))

SetRadius ==
  \/ Call("radius", radius_setter(sed, None))
  \/ \E r \in Radii : Call("radius", radius_setter(sed, <<r, 1>>))

SetWaveUnits == \E u \in WaveUnits : Call("wave_units", wave_units_setter(sed, u))

SetFluxUnits == \E u \in FluxUnits : Call("flux_units", flux_units_setter(sed, u))

MakeSed == Call("make_sed", make_sed(sed))

Results == Call("results", results(sed))

Plot == Call("plot", plot(sed))

FitBlackbody == Call("fit_blackbody", fit_blackbody(sed))

FitModelgrid == Call("fit_modelgrid", fit_modelgrid(sed))

\* SED(distance=...): a keyword argument goes through its setter
Construct(distance) ==
  IF distance = None THEN NewSED ELSE distance_setter(NewSED, distance)

Init ==
  /\ \E d \in {None} \cup {<<x, 1>> : x \in Distances} : sed = Construct(d)
  /\ last = [op |-> "__init__", exc |-> NoExc, n |-> 0]
  /\ gs_spectra = <<>>
  /\ gs_groups = <<>>
  /\ call_args = <<>>
  /\ call_result = <<>>

Next ==
  \/ AddPhotometry
  \/ DropPhotometry
  \/ AddSpectrum
  \/ DropSpectrum
  \/ SetAge
  \/ SetDistance
  \/ SetParallax
  \/ SetRadius
  \/ SetWaveUnits
  \/ SetFluxUnits
  \/ MakeSed
  \/ Results
  \/ Plot
  \/ FitBlackbody
  \/ FitModelgrid

Spec == Init /\ [][Next]_vars

(* ------------------------------------------------------------------ *)
(* make_sed statement by statement                                     *)
(* ------------------------------------------------------------------ *)
\* the statements of make_sed, in last.op while a run is under way;
\* last.trace lists the ones the run has executed, last.from is the
\* object the run started on
MakeSedSteps ==
  {"check", "_calibrate_photometry", "_calibrate_spectra", "specphot",
   "make_wein_tail", "app_SED", "fundamental_params",
   "make_wein_tail(teff)", "make_rj_tail(teff)"}

InMakeSed == last.op \in MakeSedSteps

\* a statement order that assembles before the spectra are calibrated
StepAfter_assembles_early(trace, s) ==
  IF trace = <<>> THEN "_calibrate_photometry"
  ELSE IF trace[Len(trace)] = "_calibrate_photometry" THEN "specphot"
  ELSE IF trace[Len(trace)] = "specphot" THEN "make_wein_tail"
  ELSE IF trace[Len(trace)] = "make_wein_tail" THEN "app_SED"
  ELSE IF trace[Len(trace)] = "app_SED" /\ Len(trace) = 4 THEN "_calibrate_spectra"
  ELSE IF trace[Len(trace)] = "_calibrate_spectra" THEN "fundamental_params"
  ELSE "calculated"

\* the statement make_sed executes next, after the ones in trace
StepAfter(trace, s) ==
  IF trace = <<>> THEN "_calibrate_photometry"
  ELSE IF trace[Len(trace)] = "_calibrate_photometry" THEN "_calibrate_spectra"
  ELSE IF trace[Len(trace)] = "_calibrate_spectra" THEN "specphot"
  ELSE IF trace[Len(trace)] = "specphot" THEN "make_wein_tail"
  ELSE IF trace[Len(trace)] = "make_wein_tail" THEN "app_SED"
  ELSE IF trace[Len(trace)] = "app_SED" THEN "fundamental_params"
  ELSE IF trace[Len(trace)] = "make_wein_tail(teff)" THEN "make_rj_tail(teff)"
  ELSE IF trace[Len(trace)] = "make_rj_tail(teff)" THEN "app_SED"
  ELSE IF Len(trace) = 6 /\ s.Teff_evo # None THEN "make_wein_tail(teff)"
  ELSE "calculated"

\* one statement of the run: an exception ends the run
Step(op, s) ==
  /\ InMakeSed
  /\ StepAfter(last.trace, sed) = op
  /\ sed' = [s EXCEPT !.exc = NoExc]
  /\ last' = IF s.exc # NoExc
             THEN [op |-> "make_sed", exc |-> s.exc, n |-> last.n]
             ELSE [last EXCEPT !.op = op, !.trace = Append(@, op)]
  /\ UNCHANGED <<gs_spectra, gs_groups, call_args, call_result>>

\* the test for data that opens make_sed
MSCheck ==
  /\ ~InMakeSed
  /\ last.n < MaxCalls
  /\ IF Len(sed.spectra) = 0 /\ Len(photometry(sed).photometry) = 0
     THEN /\ sed' = photometry(sed)
          /\ last' = [op |-> "make_sed", exc |-> "ValueError", n |-> last.n + 1]
     ELSE /\ sed' = IF Len(sed.spectra) = 0 THEN photometry(sed) ELSE sed
          /\ last' = [op |-> "check", exc |-> NoExc, n |-> last.n + 1,
                      trace |-> <<>>, from |-> sed]
  /\ UNCHANGED <<gs_spectra, gs_groups, call_args, call_result>>

MSCalibratePhotometry == Step("_calibrate_photometry", _calibrate_photometry(sed))

MSCalibrateSpectra == Step("_calibrate_spectra", _calibrate_spectra(sed))

MSSpecPhot == Step("specphot", specphot(sed))

MSWeinTail == Step("make_wein_tail", [make_wein_tail(sed, None) EXCEPT !.rj = None])

MSConstructAppSED == Step("app_SED", construct_app_SED(sed))

MSFundamentalParams == Step("fundamental_params", fundamental_params(sed))

MSWeinTailTeff == Step("make_wein_tail(teff)", make_wein_tail(sed, sed.Teff_evo))

MSRJTailTeff == Step("make_rj_tail(teff)", make_rj_tail(sed, sed.Teff_evo))

MSCalculated ==
  /\ InMakeSed
  /\ StepAfter(last.trace, sed) = "calculated"
  /\ sed' = [sed EXCEPT !.calculated = TRUE]
  /\ last' = [last EXCEPT !.op = "make_sed"]
  /\ UNCHANGED <<gs_spectra, gs_groups, call_args, call_result>>

\* between runs the object is given data, a distance or an age
StepNext ==
  \/ ~InMakeSed /\ AddPhotometry
  \/ ~InMakeSed /\ AddSpectrum
  \/ ~InMakeSed /\ SetDistance
  \/ ~InMakeSed /\ SetAge
  \/ MSCheck
  \/ MSCalibratePhotometry
  \/ MSCalibrateSpectra
  \/ MSSpecPhot
  \/ MSWeinTail
  \/ MSConstructAppSED
  \/ MSFundamentalParams
  \/ MSWeinTailTeff
  \/ MSRJTailTeff
  \/ MSCalculated

StepSpec == Init /\ [][StepNext]_vars

(* ------------------------------------------------------------------ *)
(* group_spectra as a function of its argument                         *)
(* ------------------------------------------------------------------ *)
\* wavelength arrays of the spectra handed to group_spectra
GSWaves == {<<1, 3>>, <<2, 5, 6>>, <<3, 4, 5>>, <<5, 6, 8>>, <<6, 7>>, <<9, 10>>}

GSLists ==
  UNION {[1 .. k -> {Spectrum(w, [i \in DOMAIN w |-> 1], "um", "erg/s/cm2/AA") : w \in GSWaves}] :
           k \in 1 .. MaxGroup}

GSInit ==
  /\ sed = NewSED
  /\ last = [op |-> "__init__", exc |-> NoExc, n |-> 0]
  /\ gs_spectra \in GSLists
  /\ gs_groups = <<>>
  /\ call_args = <<>>
  /\ call_result = <<>>

GroupSpectra ==
  /\ gs_groups = <<>>
  /\ gs_groups' = group_spectra(gs_spectra)
  /\ UNCHANGED <<sed, last, gs_spectra, call_args, call_result>>

GSNext == GroupSpectra

GSpec == GSInit /\ [][GSNext]_vars

(* ------------------------------------------------------------------ *)
(* The photometry table under add_photometry and drop_photometry       *)
(* ------------------------------------------------------------------ *)
\* magnitudes and non-zero uncertainties handed to add_photometry
PhotMags == {5, 10}
PhotUncs == {1, 2}

\* here last also keeps the arguments of the call and the table before it
PhotCall(op, args, s) ==
  /\ last.n < MaxCalls
  /\ sed' = [s EXCEPT !.exc = NoExc]
  /\ last' = [op |-> op, exc |-> s.exc, n |-> last.n + 1,
              args |-> args, before |-> sed.photometry]
  /\ UNCHANGED <<gs_spectra, gs_groups, call_args, call_result>>

PhotInit ==
  /\ sed = NewSED
  /\ last = [op |-> "__init__", exc |-> NoExc, n |-> 0, args |-> <<>>, before |-> <<>>]
  /\ gs_spectra = <<>>
  /\ gs_groups = <<>>
  /\ call_args = <<>>
  /\ call_result = <<>>

PhotAdd ==
  \E band \in Bands, mag \in PhotMags, unc \in PhotUncs :
     PhotCall("add_photometry", <<band, mag, unc>>, add_photometry(sed, band, mag, unc))

PhotDropName ==
  \E band \in Bands : PhotCall("drop_photometry", <<band>>, drop_photometry(sed, band))

PhotDropIndex ==
  \E band \in {0, Len(sed.photometry)} :
     PhotCall("drop_photometry", <<band>>, drop_photometry_index(sed, band))

PhotNext ==
  \/ PhotAdd
  \/ PhotDropName
  \/ PhotDropIndex

PhotSpec == PhotInit /\ [][PhotNext]_vars

(* ------------------------------------------------------------------ *)
(* Assembling the SED: make_sed over photometry and spectra            *)
(* ------------------------------------------------------------------ *)
\* two more bandpasses, both at the wavelength where the catalogue
\* spectra meet
AsmBands == Bands \cup {"B3", "B4"}

AsmAddPhotometry ==
  \E band \in AsmBands, mag \in Mags, unc \in MagUncs :
     Call("add_photometry", add_photometry(sed, band, mag, unc))

AsmNext ==
  \/ AsmAddPhotometry
  \/ DropPhotometry
  \/ AddSpectrum
  \/ DropSpectrum
  \/ MakeSed

AsmSpec == Init /\ [][AsmNext]_vars

(* ------------------------------------------------------------------ *)
(* Dropping data from an object that holds both kinds                  *)
(* ------------------------------------------------------------------ *)
\* SED(); add_spectrum(...); add_photometry(...)
HeldInit ==
  /\ \E id \in SpecIds, band \in AsmBands, mag \in Mags, unc \in MagUncs :
        sed = add_photometry(add_spectrum(NewSED, CatalogSpectrum(id)), band, mag, unc)
  /\ last = [op |-> "add_photometry", exc |-> NoExc, n |-> 0]
  /\ gs_spectra = <<>>
  /\ gs_groups = <<>>
  /\ call_args = <<>>
  /\ call_result = <<>>

HeldSpec == HeldInit /\ [][AsmNext]_vars

(* ------------------------------------------------------------------ *)
(* The spectral_type setter and the keyword arguments of __init__      *)
(* ------------------------------------------------------------------ *)
\* ages of this section are held in Myr, so that 225 Myr is an integer
Myr == 1000
ToMyr(age) == <<age[1] * Myr, age[2] * Myr>>
LowGravityAge == <<225, 75>>
LowGravities == {"b", "beta", "g", "gamma"}

\* spectral types as tuples (type, unc) or (type, unc, gravity), with the
\* uncertainty in tenths of a subtype; None stands for a value that is
\* neither a string nor a tuple
Half == 5
\* string-valued attributes: the value None, and an attribute not yet made
NoGravity == "None"
NoAttr == "<unset>"
SpTGravities == {"", "b", "g", "d"}
SpTInputs == {None} \cup {<<73, unc>> : unc \in {0, 3}}
                    \cup {<<73, 3, g>> : g \in SpTGravities}

\* the object at the top of __init__, before the keyword arguments are
\* set: no age yet, and no gravity, class or prefix attribute
BlankSED ==
  [NewSED EXCEPT !.age = None] @@
  [spectral_type |-> None, gravity |-> NoAttr, luminosity_class |-> NoAttr,
   prefix |-> NoAttr]

\* radius_from_spectral_type: r is what SptRadius.get_radius gives, None
\* when it raises and the bare except swallows it
radius_from_spectral_type(s, r) == IF r = None THEN s ELSE radius_setter(s, r)

\* spectral_type setter, tuple branch; find_SIMBAD needs sky coordinates,
\* which this object never has
spectral_type_setter(s0, st, r) ==
  IF st = None THEN Raise(s0, "TypeError")
  ELSE LET Gravity(g) == IF g = "" THEN NoGravity ELSE g
           Given == IF Len(st) > 2 THEN st[3] ELSE ""
           Stored(s) == [s EXCEPT !.spectral_type = <<st[1], IF st[2] = 0 THEN Half ELSE st[2]>>,
                                  !.luminosity_class = "V",
                                  !.gravity = Gravity(Given),
                                  !.prefix = NoGravity]
           Aged(s) == IF s.age = None /\ s.gravity # NoGravity /\ Given \in LowGravities
                      THEN age_setter(s, LowGravityAge) ELSE s
           Sized(s) == IF s.spectral_type # None /\ s.radius = None
                       THEN radius_from_spectral_type(s, r) ELSE s
       IN Sized(Aged(Stored(s0)))

\* setattr(self, k, v) for each keyword argument, in the order given
RECURSIVE SetAttrs(_, _)
SetAttrs(s, kwargs) ==
  IF kwargs = <<>> THEN s
  ELSE SetAttrs(IF kwargs[1][1] = "age" THEN age_setter(s, kwargs[1][2])
                ELSE spectral_type_setter(s, kwargs[1][2], kwargs[1][3]),
                Tail(kwargs))

\* SED(**kwargs): the keyword arguments, then the default age of
\* 6 Gyr, 4 Gyr when no age has been set by then
SpTConstruct(kwargs) ==
  LET Default(s) == IF s.age = None THEN age_setter(s, ToMyr(NewSED.age)) ELSE s
  IN Default(SetAttrs(BlankSED, kwargs))

SpTAgeKwargs == {<<"age", ToMyr(<<a, 1>>)>> : a \in Ages}
SpTTypeKwargs == {<<"spectral_type", st, r>> : st \in SpTInputs \ {None},
                                              r \in {None} \cup {<<x, 1>> : x \in Radii}}
SpTKwargs ==
  {<<>>} \cup {<<k>> : k \in SpTAgeKwargs \cup SpTTypeKwargs}
         \cup {<<a, k>> : a \in SpTAgeKwargs, k \in SpTTypeKwargs}
         \cup {<<k, a>> : a \in SpTAgeKwargs, k \in SpTTypeKwargs}

\* whether one of the keyword arguments is an age
HasAge(kwargs) == \E i \in DOMAIN kwargs : kwargs[i][1] = "age"

\* last.age_given records whether the user has set an age, as a keyword
\* argument or through the setter; last.kwargs, what the object was built
\* from
SpTInit ==
  /\ \E kwargs \in SpTKwargs :
        /\ sed = SpTConstruct(kwargs)
        /\ last = [op |-> "__init__", exc |-> NoExc, n |-> 0,
                   age_given |-> HasAge(kwargs), kwargs |-> kwargs]
  /\ gs_spectra = <<>>
  /\ gs_groups = <<>>
  /\ call_args = <<>>
  /\ call_result = <<>>

SpTCall(op, s, given) ==
  /\ last.n < MaxCalls
  /\ sed' = [s EXCEPT !.exc = NoExc]
  /\ last' = [op |-> op, exc |-> s.exc, n |-> last.n + 1,
              age_given |-> given, kwargs |-> last.kwargs]
  /\ UNCHANGED <<gs_spectra, gs_groups, call_args, call_result>>

SpTSetSpectralType ==
  \E st \in SpTInputs, r \in {None} \cup {<<x, 1>> : x \in Radii} :
     SpTCall("spectral_type", spectral_type_setter(sed, st, r), last.age_given)

SpTSetAge ==
  \E a \in Ages : SpTCall("age", age_setter(sed, ToMyr(<<a, 1>>)), TRUE)

SpTSetRadius ==
  \/ SpTCall("radius", radius_setter(sed, None), last.age_given)
  \/ \E x \in Radii : SpTCall("radius", radius_setter(sed, <<x, 1>>), last.age_given)

SpTNext ==
  \/ SpTSetSpectralType
  \/ SpTSetAge
  \/ SpTSetRadius

SpTSpec == SpTInit /\ [][SpTNext]_vars

(* ------------------------------------------------------------------ *)
(* The checks the setters and the add methods make on their argument   *)
(* ------------------------------------------------------------------ *)
\* an argument as isinstance, len and unit.is_equivalent see it: its
\* Python type, the physical dimension of its values, and its elements
Arg(type, dim, items) == [type |-> type, dim |-> dim, items |-> items]
NoneArg == Arg("NoneType", "none", <<>>)
SequenceTypes == {"tuple", "list", "ndarray"}
UnitTypes == {"PrefixUnit", "Unit", "CompositeUnit"}

\* isinstance(x, (tuple, list, np.ndarray)) and len(x) in [2, 3]
IsSequenceOf2or3(a) == a.type \in SequenceTypes /\ Len(a.items) \in {2, 3}

\* a (value, unc) of the right dimension, and the three values the checks
\* turn away: a bare quantity, a sequence of one, a wrong dimension
QuantityArgs(dim, wrong, x) ==
  {Arg("tuple", dim, <<x, 1>>), Arg("Quantity", dim, <<x>>),
   Arg("tuple", dim, <<x>>), Arg("tuple", wrong, <<x, 1>>)}

\* a unit of the right dimension, a unit of a wrong one, and a string
UnitArgs(dim, wrong, names) ==
  {Arg("Unit", dim, <<u>>) : u \in names}
     \cup {Arg("Unit", wrong, <<"K">>), Arg("str", dim, <<"unit">>)}

\* a distance setter that stores the sequence before it looks at its units
distance_stores_before_unit_check(s, a) ==
  IF a.type = "NoneType" THEN distance_setter(s, None)
  ELSE IF ~IsSequenceOf2or3(a) THEN Raise(s, "TypeError")
  ELSE IF a.dim # "length" THEN Raise([s EXCEPT !.distance = a.items], "TypeError")
  ELSE distance_setter(s, a.items)

\* distance setter, with its checks
distance_checked(s, a) ==
  IF a.type = "NoneType" THEN distance_setter(s, None)
  ELSE IF ~IsSequenceOf2or3(a) THEN Raise(s, "TypeError")
  ELSE IF a.dim # "length" THEN Raise(s, "TypeError")
  ELSE distance_setter(s, a.items)

\* parallax setter, with its checks
parallax_checked(s, a) ==
  IF a.type = "NoneType" THEN parallax_setter(s, None)
  ELSE IF ~IsSequenceOf2or3(a) THEN Raise(s, "TypeError")
  ELSE IF a.dim # "angle" THEN Raise(s, "TypeError")
  ELSE parallax_setter(s, a.items)

\* age setter, with its checks: None is not a sequence
age_checked(s, a) ==
  IF ~IsSequenceOf2or3(a) THEN Raise(s, "TypeError")
  ELSE IF a.dim # "time" THEN Raise(s, "TypeError")
  ELSE age_setter(s, a.items)

\* radius setter, with its checks
radius_checked(s, a) ==
  IF a.type = "NoneType" THEN radius_setter(s, None)
  ELSE IF ~IsSequenceOf2or3(a) THEN Raise(s, "TypeError")
  ELSE IF a.dim # "length" THEN Raise(s, "TypeError")
  ELSE radius_setter(s, a.items)

\* wave_units setter, with its checks
wave_units_checked(s, a) ==
  IF a.type \notin UnitTypes THEN Raise(s, "TypeError")
  ELSE IF a.dim # "length" THEN Raise(s, "TypeError")
  ELSE wave_units_setter(s, a.items[1])

\* flux_units setter, with its checks
flux_units_checked(s, a) ==
  IF a.type \notin UnitTypes THEN Raise(s, "TypeError")
  ELSE IF a.dim # "flux density" THEN Raise(s, "TypeError")
  ELSE flux_units_setter(s, a.items[1])

\* add_photometry, with its check that the magnitude is a float
add_photometry_checked(s, band, mag, unc) ==
  IF mag.type # "float" THEN Raise(s, "TypeError")
  ELSE add_photometry(s, band, mag.items[1], unc)

\* add_spectrum, with its checks: a Spectrum, or a list or tuple of two
\* or three arrays
add_spectrum_checked(s, a) ==
  IF a.type = "Spectrum" THEN add_spectrum(s, a.items[1])
  ELSE IF a.type \in {"list", "tuple"}
       THEN IF Len(a.items) \in {2, 3}
            THEN add_spectrum(s, Spectrum(a.items[1], a.items[2], "um", "erg/s/cm2/AA"))
            ELSE Raise(s, "ValueError")
       ELSE Raise(s, "TypeError")

\* a catalogue spectrum as a Spectrum, as [W, F], as [W] and as a dict
SpectrumArgs(id) ==
  {Arg("Spectrum", "flux density", <<CatalogSpectrum(id)>>),
   Arg("list", "flux density", <<CatWave(id), CatFlux(id)>>),
   Arg("list", "flux density", <<CatWave(id)>>),
   Arg("dict", "flux density", <<CatWave(id), CatFlux(id)>>)}

CheckedOps == {"distance", "parallax", "age", "radius", "wave_units",
               "flux_units", "add_photometry", "add_spectrum"}

CheckedSetDistance ==
  \E a \in {NoneArg} \cup UNION {QuantityArgs("length", "time", d) : d \in Distances} :
     Call("distance", distance_checked(sed, a))

CheckedSetParallax ==
  \E a \in {NoneArg} \cup UNION {QuantityArgs("angle", "length", x) : x \in Parallaxes} :
     Call("parallax", parallax_checked(sed, a))

CheckedSetAge ==
  \E a \in {NoneArg} \cup UNION {QuantityArgs("time", "length", x) : x \in Ages} :
     Call("age", age_checked(sed, a))

CheckedSetRadius ==
  \E a \in {NoneArg} \cup UNION {QuantityArgs("length", "time", x) : x \in Radii} :
     Call("radius", radius_checked(sed, a))

CheckedSetWaveUnits ==
  \E a \in UnitArgs("length", "temperature", WaveUnits) :
     Call("wave_units", wave_units_checked(sed, a))

CheckedSetFluxUnits ==
  \E a \in UnitArgs("flux density", "temperature", FluxUnits) :
     Call("flux_units", flux_units_checked(sed, a))

CheckedAddPhotometry ==
  \E band \in Bands, unc \in MagUncs,
     mag \in UNION {{Arg("float", "mag", <<m>>), Arg("int", "mag", <<m>>)} : m \in Mags} :
     Call("add_photometry", add_photometry_checked(sed, band, mag, unc))

CheckedAddSpectrum ==
  /\ Len(sed.spectra) < MaxSpectra
  /\ \E a \in UNION {SpectrumArgs(id) : id \in SpecIds} :
        Call("add_spectrum", add_spectrum_checked(sed, a))

CheckedNext ==
  \/ CheckedSetDistance
  \/ CheckedSetParallax
  \/ CheckedSetAge
  \/ CheckedSetRadius
  \/ CheckedSetWaveUnits
  \/ CheckedSetFluxUnits
  \/ CheckedAddPhotometry
  \/ CheckedAddSpectrum
  \/ MakeSed

CheckedSpec == Init /\ [][CheckedNext]_vars

(* ------------------------------------------------------------------ *)
(* fundamental_params as a function of the object it is called on      *)
(* ------------------------------------------------------------------ *)
\* distances, bolometric fluxes (None: not integrated yet; NoUnc: from
\* data without uncertainties), ages and estimates left by an earlier run
FPDistances == {None, <<10, 1>>, <<100, 1>>}
FPFbols == {None, <<1, 1>>, <<100, 1>>, <<100, NoUnc>>}
FPAges == {<<1, 1>>, <<6, 4>>}
FPRadii == {None, <<2, 1>>}
FPEarlier == {None, <<9, 9>>}

FPInit ==
  /\ \E d \in FPDistances, f \in FPFbols, a \in FPAges, r \in FPRadii, e \in FPEarlier :
        sed = [NewSED EXCEPT !.distance = d, !.fbol = f, !.age = a, !.radius = r,
                             !.logg = e, !.mass = e, !.Teff_evo = e,
                             !.app_SED = CatalogSpectrum(1)]
  /\ last = [op |-> "__init__", exc |-> NoExc, n |-> 0]
  /\ gs_spectra = <<>>
  /\ gs_groups = <<>>
  /\ call_args = <<>>
  /\ call_result = <<>>

FundamentalParams ==
  /\ last.n = 0
  /\ sed' = fundamental_params(sed)
  /\ last' = [op |-> "fundamental_params", exc |-> NoExc, n |-> 1]
  /\ UNCHANGED <<gs_spectra, gs_groups, call_args, call_result>>

FPNext == FundamentalParams

FPSpec == FPInit /\ [][FPNext]_vars

(* ------------------------------------------------------------------ *)
(* isochrone_interp (SEDs.py) as a function of its arguments           *)
(* ------------------------------------------------------------------ *)
\* ages are counted in thousandths of a Gyr, y in units of which Cent
\* make 0.01
Gyr == 1000
Cent == 100
Youngest == 10

\* the tabulated ages (ages argument; the youngest is 0.01 Gyr as in the
\* default list), the x of the two knots of every tabulated curve and the
\* y a curve can have at a knot
IsoAges == {10, 30, 50}
IsoKnots == <<10, 30>>
IsoYs == {800, 1600}
IsoTables == [IsoAges -> [1 .. 2 -> IsoYs]]

\* z, z_unc and (min_age, max_age) handed to isochrone_interp
IsoZs == {20, 29}
IsoZUncs == {0, 19}
IsoAgePairs ==
  {<<5, 5>>, <<5, 10>>, <<5, 20>>, <<10, 10>>, <<10, 20>>, <<20, 40>>,
   <<30, 50>>, <<5000, 20000>>, <<20000, 40000>>}

\* np.linspace(lo, hi, n)
NLinspace == 20
Linspace(lo, hi, n) == [i \in 1 .. n |-> lo + ((i - 1) * (hi - lo)) \div (n - 1)]

\* np.interp(x, [x1, x2], [f1, f2]): the end values outside [x1, x2]
Interp2(x, x1, x2, f1, f2) ==
  IF x <= x1 THEN f1
  ELSE IF x >= x2 THEN f2
  ELSE f1 + ((f2 - f1) * (x - x1)) \div (x2 - x1)

\* round(v, 2) of a non-negative v: to the nearest 0.01, halves upwards
Round2(v) == ((v + Cent \div 2) \div Cent) * Cent

\* if max_age>10: min_age, max_age = min_age/1000., max_age/1000.
IsoToGyr(ages) ==
  IF ages[2] > 10 * Gyr THEN <<ages[1] \div 1000, ages[2] \div 1000>> ELSE ages

\* the tabulated isochrone of age t interpolated onto x
IsoCurve(D, t, x) == Interp2(x, IsoKnots[1], IsoKnots[2], D[t][1], D[t][2])

\* an isochrone that ignores max_age
isochrone_interp_min_age_only(z, z_unc, min_age0, max_age0, D) ==
  LET Below(a) == {t \in IsoAges : t <= a}
      Above(a) == {t \in IsoAges : t >= a}
      Iso(age, a1, a2, x) == Interp2(age, a1, a2, IsoCurve(D, a1, x), IsoCurve(D, a2, x))
      Mean(y_min, y_max) == (y_min + y_max) \div 2
      Report(y_min, y_max) ==
        [exc |-> NoExc,
         value |-> Round2(Mean(y_min, y_max)),
         unc |-> Round2(IF y_min >= Mean(y_min, y_max) THEN y_min - Mean(y_min, y_max)
                        ELSE Mean(y_min, y_max) - y_min)]
      Vertical(min_age, min1, min2, x) ==
        Report(SetMin({Iso(min_age, min1, min2, x[i]) : i \in DOMAIN x}),
               SetMax({Iso(min_age, min1, min2, x[i]) : i \in DOMAIN x}))
      Pull(min_age, max_age) ==
        IF Above(min_age) = {} \/ Below(max_age) = {} \/ Above(max_age) = {}
        THEN [exc |-> "IndexError", value |-> None, unc |-> None]
        ELSE Vertical(min_age,
                      IF min_age > Youngest THEN SetMax(Below(min_age)) ELSE Youngest,
                      SetMin(Above(min_age)),
                      Linspace(z - z_unc, z + z_unc, NLinspace))
  IN Pull(IsoToGyr(<<min_age0, max_age0>>)[1], IsoToGyr(<<min_age0, max_age0>>)[2])

\* isochrone_interp(z, z_unc, min_age, max_age) over the table D:
\* [value, uncertainty], or IndexError when a selection of ages is empty
isochrone_interp(z, z_unc, min_age0, max_age0, D) ==
  LET Below(a) == {t \in IsoAges : t <= a}
      Above(a) == {t \in IsoAges : t >= a}
      \* np.interp(age, [a1, a2], [r1, r2]) at one x
      Iso(age, a1, a2, x) == Interp2(age, a1, a2, IsoCurve(D, a1, x), IsoCurve(D, a2, x))
      Mean(y_min, y_max) == (y_min + y_max) \div 2
      Report(y_min, y_max) ==
        [exc |-> NoExc,
         value |-> Round2(Mean(y_min, y_max)),
         unc |-> Round2(IF y_min >= Mean(y_min, y_max) THEN y_min - Mean(y_min, y_max)
                        ELSE Mean(y_min, y_max) - y_min)]
      \* min_iso + max_iso, then its least and greatest value
      Vertical(min_age, max_age, min1, min2, max1, max2, x) ==
        Report(SetMin({Iso(min_age, min1, min2, x[i]) : i \in DOMAIN x}
                      \cup {Iso(max_age, max1, max2, x[i]) : i \in DOMAIN x}),
               SetMax({Iso(min_age, min1, min2, x[i]) : i \in DOMAIN x}
                      \cup {Iso(max_age, max1, max2, x[i]) : i \in DOMAIN x}))
      \* min1, min2, max1, max2: A[...][-1] and A[...][0] of an empty
      \* selection are an IndexError
      Pull(min_age, max_age) ==
        IF Above(min_age) = {} \/ Below(max_age) = {} \/ Above(max_age) = {}
        THEN [exc |-> "IndexError", value |-> None, unc |-> None]
        ELSE Vertical(min_age, max_age,
                      IF min_age > Youngest THEN SetMax(Below(min_age)) ELSE Youngest,
                      SetMin(Above(min_age)),
                      SetMax(Below(max_age)),
                      SetMin(Above(max_age)),
                      Linspace(z - z_unc, z + z_unc, NLinspace))
  IN Pull(IsoToGyr(<<min_age0, max_age0>>)[1], IsoToGyr(<<min_age0, max_age0>>)[2])

IsoInit ==
  /\ sed = NewSED
  /\ last = [op |-> "__init__", exc |-> NoExc, n |-> 0]
  /\ gs_spectra = <<>>
  /\ gs_groups = <<>>
  /\ call_args \in [z : IsoZs, z_unc : IsoZUncs, ages : IsoAgePairs, D : IsoTables]
  /\ call_result = <<>>

IsochroneInterp ==
  /\ call_result = <<>>
  /\ call_result' = isochrone_interp(call_args.z, call_args.z_unc,
                                     call_args.ages[1], call_args.ages[2], call_args.D)
  /\ UNCHANGED <<sed, last, gs_spectra, gs_groups, call_args>>

IsoNext == IsochroneInterp

IsoSpec == IsoInit /\ [][IsoNext]_vars

(* ------------------------------------------------------------------ *)
(* norm_to_mags (SEDs.py) as a function of its arguments               *)
(* ------------------------------------------------------------------ *)
\* product of f over a finite set
RECURSIVE ProdOver(_, _)
ProdOver(S, f) ==
  IF S = {} THEN 1
  ELSE LET x == CHOOSE y \in S : TRUE IN f[x] * ProdOver(S \ {x}, f)

\* the [W, F, E] handed to norm_to_mags
NormSpectra ==
  {[wave |-> <<1, 2>>, flux |-> <<2, 4>>, unc |-> <<1, 1>>],
   [wave |-> <<3, 4, 5>>, flux |-> <<6, 4, 2>>, unc |-> <<2, 1, 1>>]}

\* a dictionary of magnitudes: for each band it lists, the entries b and
\* b_unc, 0 standing for an entry that is missing, None or zero
NormVals == {0, 2, 4}
NormUncs == {0, 1}
NormDicts ==
  UNION {[S -> [val : NormVals, unc : NormUncs]] : S \in SUBSET Bands}

\* the bands norm_to_mags asks s.all_mags for
NormAsked(to_mags) == {b \in DOMAIN to_mags : to_mags[b].val # 0}

\* RSR[b]['max'] - RSR[b]['min']
RSRWidth(b) == IF b = "B1" THEN 1 ELSE 2

\* norm_to_mags(spec, to_mags, weighting, reverse), mags being what
\* s.all_mags returned: the spectrum times (or over) norm, or ValueError
\* when the six arrays are unpacked from an empty data
norm_to_mags(spec, mags, to_mags, weighting, reverse) ==
  LET Var(b) == to_mags[b].unc * to_mags[b].unc + mags[b].unc * mags[b].unc
      Weight(b) == IF weighting THEN RSRWidth(b) ELSE 1
      Times(num, den) ==
        [exc |-> NoExc,
         spec |-> [spec EXCEPT !.flux = [k \in DOMAIN spec.flux |-> (spec.flux[k] * num) \div den],
                               !.unc = [k \in DOMAIN spec.unc |-> (spec.unc[k] * num) \div den]]]
      \* norm = sum(weight*f1*f2/(e1**2 + e2**2))/sum(weight*f2**2/(e1**2 + e2**2)),
      \* both sums over the common denominator p
      Norm(data, p) ==
        IF reverse
        THEN Times(SumOver(data, [b \in data |-> Weight(b) * mags[b].val * mags[b].val * (p \div Var(b))]),
                   SumOver(data, [b \in data |-> Weight(b) * to_mags[b].val * mags[b].val * (p \div Var(b))]))
        ELSE Times(SumOver(data, [b \in data |-> Weight(b) * to_mags[b].val * mags[b].val * (p \div Var(b))]),
                   SumOver(data, [b \in data |-> Weight(b) * mags[b].val * mags[b].val * (p \div Var(b))]))
      Unpack(data) ==
        IF data = {} THEN [exc |-> "ValueError", spec |-> None]
        ELSE Norm(data, ProdOver(data, [b \in data |-> Var(b)]))
  IN Unpack({b \in DOMAIN mags \cap DOMAIN to_mags :
               /\ mags[b].val # 0 /\ mags[b].unc # 0
               /\ to_mags[b].val # 0 /\ to_mags[b].unc # 0})

NormInit ==
  /\ sed = NewSED
  /\ last = [op |-> "__init__", exc |-> NoExc, n |-> 0]
  /\ gs_spectra = <<>>
  /\ gs_groups = <<>>
  /\ \E spec \in NormSpectra, to_mags \in NormDicts, mags \in NormDicts,
        weighting \in BOOLEAN, reverse \in BOOLEAN :
        /\ DOMAIN mags \subseteq NormAsked(to_mags)
        /\ call_args = [spec |-> spec, to_mags |-> to_mags, mags |-> mags,
                        weighting |-> weighting, reverse |-> reverse]
  /\ call_result = <<>>

NormToMagsCall ==
  /\ call_result = <<>>
  /\ call_result' = norm_to_mags(call_args.spec, call_args.mags, call_args.to_mags,
                                 call_args.weighting, call_args.reverse)
  /\ UNCHANGED <<sed, last, gs_spectra, gs_groups, call_args>>

NormNext == NormToMagsCall

NormSpec == NormInit /\ [][NormNext]_vars

(* ------------------------------------------------------------------ *)
(* Properties                                                          *)
(* ------------------------------------------------------------------ *)
Ok(op) == last.op = op /\ last.exc = NoExc

\* C1: after a successful add_photometry, drop_photometry, add_spectrum,
\* drop_spectrum, or assignment of age, distance, parallax, wave_units or
\* flux_units, the object is uncalculated, whatever it was before.
C1_MutatorsUncalculate ==
  (last.op \in Mutators /\ last.exc = NoExc) => ~sed.calculated

\* a mutator has acted on an object that make_sed had already computed
C1_Witness ==
  /\ Ok("wave_units")
  /\ sed.fbol # None
  /\ ~sed.calculated

\* C2: whenever the object is calculated, fbol is the integral of the
\* current app_SED and mbol is the magnitude of that fbol.
C2_BolometricFromCurrentSED ==
  sed.calculated =>
     /\ sed.fbol = SpecIntegral(sed.app_SED)
     /\ sed.mbol = mbol_of(SpecIntegral(sed.app_SED))

\* what a reader reads
Derived(s) ==
  <<s.calculated, s.app_SED, s.abs_SED, s.app_specphot_SED, s.wein, s.rj,
    s.fbol, s.mbol, s.Lbol, s.Lbol_sun, s.Mbol, s.Teff, s.Teff_evo,
    s.radius, s.mass, s.logg>>

\* C3: results, plot, fit_blackbody and fit_modelgrid called on an
\* uncalculated object first run the whole of make_sed, and whenever one of
\* them returns the object is calculated.
C3_ReadersRecompute ==
  [][ last'.op \in Readers =>
        /\ (last'.exc = NoExc => sed'.calculated)
        /\ (~sed.calculated => Derived(sed') = Derived(make_sed(sed))) ]_vars

\* a reader has returned from an object that a mutator had left uncalculated
C3_Witness ==
  /\ last.op \in Readers
  /\ last.exc = NoExc
  /\ last.n = 2
  /\ sed.calculated
  /\ sed.fbol # None

\* C4: an assignment of a new distance or parallax never leaves the absolute
\* photometric SED rewritten from the new distance next to a luminosity
\* that was computed from the old distance.
C4_AtomicInvalidation ==
  [][ (last'.op \in {"distance", "parallax"} /\ sed'.distance # None
         /\ sed'.distance # sed.distance) =>
        ~ ( /\ sed'.abs_phot_SED # None
            /\ sed'.abs_phot_SED = SpecFluxCalibrate(sed'.app_phot_SED, sed'.distance)
            /\ sed'.abs_phot_SED # sed.abs_phot_SED
            /\ sed.Lbol # None
            /\ sed'.Lbol = sed.Lbol ) ]_vars

AbsColumnsUndefined(s) ==
  \A i \in DOMAIN s.photometry :
     /\ s.photometry[i].abs_magnitude = NaN
     /\ s.photometry[i].abs_magnitude_unc = NaN
     /\ s.photometry[i].abs_flux = NaN
     /\ s.photometry[i].abs_flux_unc = NaN

\* C5: assigning None to distance or parallax when a distance was set
\* leaves every absolute column of the table NaN, abs_phot_SED and
\* abs_spec_SED None and, if the radius came from the isochrones, the radius
\* None and isochrone_radius False.
C5_DistanceNoneClearsAbsolute ==
  [][ (last'.op \in {"distance", "parallax"} /\ last'.exc = NoExc
         /\ sed.distance # None /\ sed'.distance = None) =>
        /\ AbsColumnsUndefined(sed')
        /\ sed'.abs_phot_SED = None
        /\ sed'.abs_spec_SED = None
        /\ ~sed'.isochrone_radius
        /\ (sed.isochrone_radius => sed'.radius = None) ]_vars

\* the distance has been removed from an object with photometry whose
\* radius and temperature had come from the isochrones
C5_Witness ==
  /\ Ok("distance")
  /\ sed.distance = None
  /\ Len(sed.photometry) > 0
  /\ sed.Teff_evo # None
  /\ sed.Teff # None
  /\ sed.radius = None

\* the apparent frame: the bands with their apparent magnitudes and
\* uncertainties, and the input spectra
ApparentFrame(s) ==
  << {<<s.photometry[i].band, s.photometry[i].app_magnitude,
        s.photometry[i].app_magnitude_unc>> : i \in DOMAIN s.photometry},
     s.spectra >>

\* C6: assigning None to distance or parallax changes neither the bands of
\* the table, nor their apparent magnitudes and uncertainties, nor the list
\* of input spectra.
C6_DistanceNonePreservesApparent ==
  [][ (last'.op \in {"distance", "parallax"} /\ sed'.distance = None) =>
        ApparentFrame(sed') = ApparentFrame(sed) ]_vars

\* the parallax has been removed from an object holding photometry and a
\* spectrum
C6_Witness ==
  /\ Ok("parallax")
  /\ sed.parallax = None
  /\ Len(sed.photometry) > 0
  /\ Len(sed.spectra) > 0

\* C7: after a successful make_sed without a distance, abs_SED, Lbol,
\* Lbol_sun and Mbol are undefined; with a distance, abs_SED is defined.
C7_AbsoluteResultsFollowDistance ==
  Ok("make_sed") =>
     IF sed.distance = None
     THEN /\ sed.abs_SED \in {Unset, None}
          /\ sed.Lbol = None
          /\ sed.Lbol_sun = None
          /\ sed.Mbol = None
     ELSE sed.abs_SED \notin {Unset, None}

\* C8: after a successful make_sed with distance or radius None, Teff is
\* None.
C8_TeffNeedsDistanceAndRadius ==
  (Ok("make_sed") /\ (sed.distance = None \/ sed.radius = None)) => sed.Teff = None

\* C9: distance is None exactly when parallax is None, and after either one
\* is assigned a value the other is the inverse of the assigned value.
C9_DistanceParallaxInverse ==
  /\ sed.distance = None <=> sed.parallax = None
  /\ (Ok("distance") /\ sed.distance # None) => sed.parallax = Pi2pc(sed.distance)
  /\ (Ok("parallax") /\ sed.parallax # None) => sed.distance = Pi2pc(sed.parallax)

\* a parallax has been assigned to an object that had another distance
C9_Witness ==
  /\ Ok("parallax")
  /\ sed.parallax # None
  /\ sed.Lbol # None
  /\ sed.Lbol # Lbol_of(sed.fbol, sed.distance)

\* closed wavelength intervals [min, max] with a common point
Overlap(a, b) ==
  /\ SeqMin(a.wave) <= SeqMax(b.wave)
  /\ SeqMin(b.wave) <= SeqMax(a.wave)

\* i and j are joined by a chain of at most k overlaps
RECURSIVE Connected(_, _, _, _)
Connected(spectra, i, j, k) ==
  \/ i = j
  \/ /\ k > 0
     /\ \E m \in DOMAIN spectra :
           Overlap(spectra[i], spectra[m]) /\ Connected(spectra, m, j, k - 1)

SameGroup(groups, i, j) ==
  \E g \in DOMAIN groups :
     /\ \E x \in DOMAIN groups[g] : groups[g][x] = i
     /\ \E y \in DOMAIN groups[g] : groups[g][y] = j

\* C10: group_spectra puts two spectra in one group exactly when a chain of
\* overlapping closed wavelength intervals joins them.
C10_GroupsAreOverlapComponents ==
  gs_groups # <<>> =>
     \A i, j \in DOMAIN gs_spectra :
        SameGroup(gs_groups, i, j) <=> Connected(gs_spectra, i, j, Len(gs_spectra))

\* C11: three spectra A, B, C with A overlapping B, B overlapping C and A
\* not overlapping C come back from group_spectra as one group of three,
\* in whatever order they are listed.
C11_GroupingTransitive ==
  (gs_groups # <<>> /\ Len(gs_spectra) = 3) =>
     \A a, b, c \in DOMAIN gs_spectra :
        ( /\ Overlap(gs_spectra[a], gs_spectra[b])
          /\ Overlap(gs_spectra[b], gs_spectra[c])
          /\ ~Overlap(gs_spectra[a], gs_spectra[c]) )
        => (Len(gs_groups) = 1 /\ Len(gs_groups[1]) = 3)

\* the rows of the table that carry the band
RowsOf(rows, band) == {i \in DOMAIN rows : rows[i].band = band}

StrictlyInside(s, e) ==
  \E N \in DOMAIN s.stitched_spectra :
     /\ s.stitched_spectra[N].wave[1] < e
     /\ e < s.stitched_spectra[N].wave[Len(s.stitched_spectra[N].wave)]

\* e is the first or the last wavelength of a stitched spectrum of s
AtAnEnd(s, e) ==
  \E N \in DOMAIN s.stitched_spectra :
     \/ s.stitched_spectra[N].wave[1] = e
     \/ s.stitched_spectra[N].wave[Len(s.stitched_spectra[N].wave)] = e

\* the rows of the table with a positive flux and uncertainty that no
\* stitched spectrum covers
Uncovered(s) ==
  {j \in DOMAIN s.photometry :
      /\ s.photometry[j].app_flux > 0
      /\ s.photometry[j].app_flux_unc > 0
      /\ ~StrictlyInside(s, s.photometry[j].eff)}

\* C13: with stitched spectra and photometry, the spec+phot piece made by
\* make_sed holds exactly the photometric points that are not strictly
\* inside the span of a stitched spectrum: points at an end of a spectrum
\* or outside every span are kept, points strictly inside are left out.
C13_CoveredPhotometryExcluded ==
  (Ok("make_sed") /\ Len(sed.stitched_spectra) > 0 /\ Len(sed.photometry) > 0) =>
     IF Uncovered(sed) = {}
     THEN sed.app_specphot_SED = None
     ELSE /\ sed.app_specphot_SED # None
          /\ sed.app_specphot_SED.wave =
               SelectIdx([i \in DOMAIN sed.photometry |-> sed.photometry[i].eff],
                         Uncovered(sed), 1)

\* make_sed has run with one point strictly inside a spectrum and one point
\* at the end of a spectrum
C13_Witness ==
  /\ Ok("make_sed")
  /\ Len(sed.stitched_spectra) > 0
  /\ \E i \in DOMAIN sed.photometry : StrictlyInside(sed, sed.photometry[i].eff)
  /\ \E i \in DOMAIN sed.photometry :
        /\ AtAnEnd(sed, sed.photometry[i].eff)
        /\ ~StrictlyInside(sed, sed.photometry[i].eff)
  /\ sed.app_specphot_SED # None

\* the wavelengths of a spectrum go up strictly
StrictlyIncreasing(wave) == \A i \in 1 .. (Len(wave) - 1) : wave[i] < wave[i + 1]

\* C14: the wavelength array of the full apparent SED that make_sed
\* assembles is strictly increasing, without a repeated wavelength.
C14_FullSEDMonotonic ==
  Ok("make_sed") => StrictlyIncreasing(sed.app_SED.wave)

\* make_sed has assembled two spectra that meet at one wavelength and two
\* kept photometric points at that same wavelength
C14_Witness ==
  /\ Ok("make_sed")
  /\ Len(sed.stitched_spectra) > 0
  /\ \E i, j \in DOMAIN sed.photometry :
        /\ i # j
        /\ sed.photometry[i].eff = sed.photometry[j].eff
        /\ AtAnEnd(sed, sed.photometry[i].eff)
  /\ sed.app_specphot_SED # None
  /\ Len(sed.app_SED.wave) > 2

\* the wavelengths, in the units of s, of the photometric points and of
\* the samples of the spectra that s holds
DataWaves(s) ==
  {QTo(Q(s.photometry[i].eff, s.eff_unit), s.wave_units).value : i \in DOMAIN s.photometry}
  \cup UNION {{SpecWaveUnits(s.spectra[N], s.wave_units).wave[k] :
                 k \in DOMAIN s.spectra[N].wave} : N \in DOMAIN s.spectra}

\* the wavelengths of a tail, in the units of s
TailWaves(s, tail) ==
  {SpecWaveUnits(tail, s.wave_units).wave[k] : k \in DOMAIN tail.wave}

\* C15: after make_sed no wavelength of the Wien tail lies above the
\* shortest wavelength of the photometry and spectra the SED holds, and no
\* wavelength of the Rayleigh-Jeans tail lies below the longest one.
C15_TailsDoNotOverlapData ==
  Ok("make_sed") =>
     /\ \A w \in TailWaves(sed, sed.wein) : w <= SetMin(DataWaves(sed))
     /\ sed.rj # None =>
           \A w \in TailWaves(sed, sed.rj) : w >= SetMax(DataWaves(sed))

\* make_sed has made both tails, from blackbodies, next to photometry and
\* a spectrum
C15_Witness ==
  /\ Ok("make_sed")
  /\ sed.rj # None
  /\ Len(sed.rj.wave) > 0
  /\ Len(sed.wein.wave) > 1
  /\ Len(sed.photometry) > 0
  /\ Len(sed.spectra) > 0

\* every wavelength of the piece is a wavelength of the assembled SED
PartOf(piece, full) ==
  \A k \in DOMAIN piece.wave : \E m \in DOMAIN full.wave : full.wave[m] = piece.wave[k]

\* C16: after make_sed the full apparent SED holds a Wien tail and a
\* Rayleigh-Jeans tail, also when the first pass gave no Teff_evo.
C16_BothTailsAssembled ==
  Ok("make_sed") =>
     /\ sed.wein # None /\ Len(sed.wein.wave) > 0 /\ PartOf(sed.wein, sed.app_SED)
     /\ sed.rj # None /\ Len(sed.rj.wave) > 0 /\ PartOf(sed.rj, sed.app_SED)

\* Lbol_sun is defined and has an uncertainty
LbolKnown(s) == s.Lbol_sun # None /\ s.Lbol_sun[2] # NoUnc

\* C17: fundamental_params leaves radius, logg, mass and Teff_evo as they
\* were unless Lbol_sun is defined with an uncertainty; with a radius
\* already set it leaves the radius as it was and still evaluates logg
\* and mass from the isochrones.
C17_IsochronesNeedLbolUnc ==
  [][ last'.op = "fundamental_params" =>
        /\ ~LbolKnown(sed') =>
              /\ sed'.radius = sed.radius
              /\ sed'.logg = sed.logg
              /\ sed'.mass = sed.mass
              /\ sed'.Teff_evo = sed.Teff_evo
        /\ (LbolKnown(sed') /\ sed.radius # None) =>
              /\ sed'.radius = sed.radius
              /\ sed'.isochrone_radius = sed.isochrone_radius
              /\ IsoEvaluate(sed'.Lbol_sun, sed'.age, "logg") # None =>
                    sed'.logg = IsoEvaluate(sed'.Lbol_sun, sed'.age, "logg")
              /\ IsoEvaluate(sed'.Lbol_sun, sed'.age, "mass") # None =>
                    sed'.mass = IsoEvaluate(sed'.Lbol_sun, sed'.age, "mass")
    ]_vars

\* fundamental_params has run on an object with a radius of its own and
\* has evaluated logg and mass
C17_Witness ==
  /\ last.op = "fundamental_params"
  /\ LbolKnown(sed)
  /\ sed.radius = <<2, 1>>
  /\ ~sed.isochrone_radius
  /\ sed.logg \notin FPEarlier
  /\ sed.mass \notin FPEarlier

\* the tabulated ages on either side of age a, the youngest standing in
\* for the lower one when a is below it
Bracket(a) ==
  {IF \E t \in IsoAges : t <= a THEN SetMax({t \in IsoAges : t <= a}) ELSE SetMin(IsoAges),
   SetMin({t \in IsoAges : t >= a})}

\* the isochrone of age a, between the tabulated ones on either side, at x
IsoAtAge(D, a, x) ==
  Interp2(a, SetMin(Bracket(a)), SetMax(Bracket(a)),
          IsoCurve(D, SetMin(Bracket(a)), x), IsoCurve(D, SetMax(Bracket(a)), x))

\* the sampled x of the window [z - z_unc, z + z_unc]
IsoSamples(c) ==
  {Linspace(c.z - c.z_unc, c.z + c.z_unc, NLinspace)[i] : i \in 1 .. NLinspace}

\* the y over the window of the curves interpolated to min_age and max_age
IsoWindowYs(c) ==
  {IsoAtAge(c.D, IsoToGyr(c.ages)[k], x) : k \in 1 .. 2, x \in IsoSamples(c)}

\* the y over the window of the tabulated isochrones on either side of
\* min_age and max_age
IsoBracketYs(c) ==
  {IsoCurve(c.D, t, x) :
     t \in Bracket(IsoToGyr(c.ages)[1]) \cup Bracket(IsoToGyr(c.ages)[2]),
     x \in (c.z - c.z_unc) .. (c.z + c.z_unc)}

IsoReturned == call_result # <<>> /\ call_result.exc = NoExc

\* C18: isochrone_interp returns the midpoint and the half-range of the
\* least and greatest y over the window of the curves interpolated to
\* min_age and max_age, each rounded to 0.01; the uncertainty is not
\* negative and the value lies within 0.005 of the range of y of the
\* tabulated isochrones on either side over the window.
C18_RoundedMidpointAndHalfRange ==
  IsoReturned =>
    /\ call_result.value =
         Round2((SetMin(IsoWindowYs(call_args)) + SetMax(IsoWindowYs(call_args))) \div 2)
    /\ call_result.unc =
         Round2((SetMax(IsoWindowYs(call_args)) - SetMin(IsoWindowYs(call_args))) \div 2)
    /\ call_result.unc >= 0
    /\ 2 * call_result.value >= 2 * SetMin(IsoBracketYs(call_args)) - Cent
    /\ 2 * call_result.value <= 2 * SetMax(IsoBracketYs(call_args)) + Cent

\* C18 as stated: the value is the midpoint, the uncertainty the
\* half-range, and the value lies between the least and greatest y of the
\* tabulated isochrones on either side over the window.
C18_ExactMidpointAndHalfRange ==
  IsoReturned =>
    /\ 2 * call_result.value =
         SetMin(IsoWindowYs(call_args)) + SetMax(IsoWindowYs(call_args))
    /\ 2 * call_result.unc =
         SetMax(IsoWindowYs(call_args)) - SetMin(IsoWindowYs(call_args))
    /\ call_result.unc >= 0
    /\ call_result.value >= SetMin(IsoBracketYs(call_args))
    /\ call_result.value <= SetMax(IsoBracketYs(call_args))

\* a call over a window of some width, between two different ages, whose
\* curves differ: the uncertainty is positive
C18_Witness ==
  /\ IsoReturned
  /\ call_args.z_unc > 0
  /\ IsoToGyr(call_args.ages)[1] < IsoToGyr(call_args.ages)[2]
  /\ call_result.unc > 0
  /\ call_result.value > SetMin(IsoWindowYs(call_args))

\* C19: with min_age, or both min_age and max_age, below the youngest
\* tabulated age, isochrone_interp returns what it returns for the
\* youngest age in their place and raises nothing.
C19_YoungAgesClamped ==
  (call_result # <<>> /\ IsoToGyr(call_args.ages)[1] < Youngest) =>
    /\ call_result.exc = NoExc
    /\ call_result =
         isochrone_interp(call_args.z, call_args.z_unc, Youngest,
                          IF IsoToGyr(call_args.ages)[2] < Youngest THEN Youngest
                          ELSE IsoToGyr(call_args.ages)[2],
                          call_args.D)

\* no band has all four of synthetic flux, its uncertainty, observed
\* flux and its uncertainty
NoCommonBand(c) ==
  \A b \in DOMAIN c.mags \cap DOMAIN c.to_mags :
     c.mags[b].val = 0 \/ c.mags[b].unc = 0 \/ c.to_mags[b].val = 0 \/ c.to_mags[b].unc = 0

\* C20: with no band common to the synthetic and the observed magnitudes,
\* or none that has all four values, norm_to_mags raises nothing and
\* returns the spectrum as it was given.
C20_NoOverlapReturnsUnscaled ==
  (call_result # <<>> /\ NoCommonBand(call_args)) =>
    /\ call_result.exc = NoExc
    /\ call_result.spec = call_args.spec

\* every b in the trace has an a before it
Precedes(trace, a, b) ==
  \A i \in DOMAIN trace : trace[i] = b => \E j \in 1 .. (i - 1) : trace[j] = a

\* C21: within a run of make_sed the photometry is calibrated before the
\* spectra, both before app_SED is constructed, app_SED immediately before
\* fundamental_params, and the object is calculated only once the run has
\* executed all of them and ended.
C21_MakeSedOrder ==
  "trace" \in DOMAIN last =>
    /\ Precedes(last.trace, "_calibrate_photometry", "_calibrate_spectra")
    /\ Precedes(last.trace, "_calibrate_photometry", "app_SED")
    /\ Precedes(last.trace, "_calibrate_spectra", "app_SED")
    /\ \A i \in DOMAIN last.trace :
          last.trace[i] = "fundamental_params" =>
             i > 1 /\ last.trace[i - 1] = "app_SED"
    /\ last.op = "fundamental_params" => sed.app_SED \notin {Unset, None}
    /\ (InMakeSed /\ last.trace # <<>>) => ~sed.calculated
    /\ sed.calculated =>
          /\ last.op = "make_sed" \/ last.trace = <<>>
          /\ last.op = "make_sed" =>
                {"_calibrate_photometry", "_calibrate_spectra", "app_SED",
                 "fundamental_params"} \subseteq {last.trace[i] : i \in DOMAIN last.trace}

\* a run of make_sed that took the second pass and ended calculated
C21_Witness ==
  /\ last.op = "make_sed"
  /\ "trace" \in DOMAIN last
  /\ Len(last.trace) = 10
  /\ sed.calculated

HasData(s) == Len(s.spectra) > 0 \/ Len(s.photometry) > 0

\* C22: make_sed on an object without spectra and without photometry
\* raises ValueError and changes nothing, the object staying uncalculated;
\* a calculated object always holds a spectrum or a photometric entry.
C22_NoDataNoSED ==
  [][ /\ sed.calculated => HasData(sed)
      /\ sed'.calculated => HasData(sed')
      /\ (last'.op = "make_sed" /\ last'.n = last.n + 1 /\ ~HasData(sed)) =>
            /\ last'.exc = "ValueError"
            /\ sed' = sed
            /\ ~sed'.calculated
    ]_vars

\* make_sed has raised ValueError on an object that had been calculated
\* before all its data were dropped
C22_Witness ==
  /\ last.op = "make_sed"
  /\ last.exc = "ValueError"
  /\ ~HasData(sed)
  /\ sed.app_SED \notin {Unset, None}
  /\ ~sed.calculated

\* what _calibrate_spectra and the spec+phot piece are for the spectra and
\* the photometry the object holds now, whatever it held before
FromCurrentSpectra(s) ==
  specphot(_calibrate_spectra(_calibrate_photometry(
    [s EXCEPT !.stitched_spectra = <<>>, !.app_spec_SED = None])))

\* C23: after a successful make_sed, stitched_spectra, app_spec_SED and
\* the spec+phot piece are those of the spectra in the list now; with the
\* list empty stitched_spectra is empty, app_spec_SED is None, the
\* spec+phot piece is the whole photometry and app_SED is the sum of the
\* Wien tail, the photometry and the Rayleigh-Jeans tail alone.
C23_StitchedFromCurrentSpectra ==
  (last.op = "make_sed" /\ last.exc = NoExc) =>
    /\ sed.stitched_spectra = FromCurrentSpectra(sed).stitched_spectra
    /\ sed.app_spec_SED = FromCurrentSpectra(sed).app_spec_SED
    /\ sed.app_specphot_SED = FromCurrentSpectra(sed).app_specphot_SED
    /\ Len(sed.spectra) = 0 =>
          /\ sed.stitched_spectra = <<>>
          /\ sed.app_spec_SED = None
          /\ sed.app_specphot_SED = sed.app_phot_SED
          /\ sed.app_SED = SpecSum(<<sed.wein, sed.app_phot_SED, sed.rj>>)

\* C24: a radius assigned through the radius setter is still there after
\* the distance or the parallax is then set to None.
C24_ManualRadiusSurvivesDistanceNone ==
  [][ ( /\ last.op = "radius" /\ sed.radius # None
        /\ last'.op \in {"distance", "parallax"} /\ last'.n = last.n + 1
        /\ sed'.distance = None )
      => sed'.radius = sed.radius
    ]_vars

\* C25: after a successful make_sed an isochrone-derived radius is the
\* one the isochrones give for the Lbol_sun and the age the object has
\* now.
C25_IsochroneRadiusIsCurrent ==
  ( /\ last.op = "make_sed" /\ last.exc = NoExc
    /\ sed.isochrone_radius
    /\ sed.Lbol_sun # None /\ sed.Lbol_sun[2] # NoUnc
    /\ IsoEvaluate(sed.Lbol_sun, sed.age, "radius") # None )
  => sed.radius = IsoEvaluate(sed.Lbol_sun, sed.age, "radius")

\* the positions in the list summed into app_SED at which the N-th
\* stitched spectrum enters, by itself or inside the spectral SED
EntersAt(s, N) ==
  {i \in DOMAIN app_SED_pieces(s) :
     /\ app_SED_pieces(s)[i] \notin {None, Unset}
     /\ app_SED_pieces(s)[i] \in {s.stitched_spectra[N], s.app_spec_SED}}

\* C26: after a successful make_sed every stitched spectrum enters the
\* sum that makes app_SED at exactly one position, whether the object
\* holds spectra only, photometry only or both.
C26_StitchedSummedOnce ==
  (last.op = "make_sed" /\ last.exc = NoExc) =>
    /\ sed.app_SED = SpecSum(app_SED_pieces(sed))
    /\ \A N \in DOMAIN sed.stitched_spectra : Cardinality(EntersAt(sed, N)) = 1

\* C27: after the wave_units or the flux_units setter every stored
\* spectrum and the photometry table are in the units the object has now,
\* and the tracked bounds of the spectra and of the photometry, whose
\* bare values are compared to trim the tails, are in one unit.
C27_UnitsSetterConvertsInputs ==
  (last.op \in {"wave_units", "flux_units"} /\ last.exc = NoExc) =>
    /\ \A i \in DOMAIN sed.spectra :
          /\ sed.spectra[i].wave_units = sed.wave_units
          /\ sed.spectra[i].flux_units = sed.flux_units
    /\ Len(sed.photometry) > 0 => sed.eff_unit = sed.wave_units
    /\ sed.min_spec.unit = sed.min_phot.unit
    /\ sed.max_spec.unit = sed.max_phot.unit

\* the effective wavelengths, in um, of the photometry now in the table and
\* the wavelengths, in um, of the spectra now in the list
PhotEffsNow == {BandEff(sed.photometry[i].band) : i \in DOMAIN sed.photometry}
SpecWavesNow ==
  UNION {{QTo(Q(sed.spectra[i].wave[j], sed.spectra[i].wave_units), "um").value :
             j \in DOMAIN sed.spectra[i].wave} : i \in DOMAIN sed.spectra}

\* C28: after any sequence of add_photometry, drop_photometry, add_spectrum
\* and drop_spectrum the tracked bounds min_phot, max_phot, min_spec and
\* max_spec are the extremes of the photometry now in the table and of the
\* spectra now in the list, and the initial sentinels when there is none.
C28_BoundsFollowCurrentData ==
  /\ IF PhotEffsNow = {}
        THEN sed.min_phot = Q(999, "um") /\ sed.max_phot = Q(0, "um")
        ELSE /\ QTo(sed.min_phot, "um").value = SetMin(PhotEffsNow)
             /\ QTo(sed.max_phot, "um").value = SetMax(PhotEffsNow)
  /\ IF SpecWavesNow = {}
        THEN sed.min_spec = Q(999, "um") /\ sed.max_spec = Q(0, "um")
        ELSE /\ QTo(sed.min_spec, "um").value = SetMin(SpecWavesNow)
             /\ QTo(sed.max_spec, "um").value = SetMax(SpecWavesNow)

\* the gravity the object was given last is a low-gravity one
LowGravityGiven == sed.gravity \in LowGravities

\* C29: an object whose age the user never set, neither as a keyword
\* argument nor through the setter, and whose spectral type was set with a
\* low-gravity suffix, by the constructor or afterwards, has the age
\* (225 Myr, 75 Myr).
C29_LowGravitySetsAge ==
  (/\ last.op \in {"__init__", "spectral_type"}
   /\ last.exc = NoExc
   /\ ~last.age_given
   /\ LowGravityGiven) => sed.age = LowGravityAge

\* C30: a call of the distance, parallax, age, radius, wave_units or
\* flux_units setter, of add_photometry or of add_spectrum that raises
\* leaves the object as it was: the stored value and its paired quantity,
\* the photometry table, the list of spectra and the calculated flag
\* included.
C30_RejectedCallChangesNothing ==
  [][(last'.op \in CheckedOps /\ last'.exc # NoExc) => sed' = sed]_vars

\* a distance was turned away on a calculated object that holds a
\* distance, photometry and a spectrum
C30_Witness ==
  /\ last.op = "distance"
  /\ last.exc = "TypeError"
  /\ sed.calculated
  /\ sed.distance # None
  /\ Len(sed.photometry) > 0
  /\ Len(sed.spectra) > 0

====
